---- MODULE Spec2Model ----
(***************************************************************************)
(* Device state machine, dispatcher (main event loop) and protocol session *)
(* lifecycle of the xiaozhi-esp32 firmware.                                *)
(*                                                                         *)
(* Specifications of this module:                                          *)
(*   SpecSM       one caller driving a DeviceStateMachine object through   *)
(*                its public API, the listeners' callbacks included        *)
(*   SpecApp      the Application: dispatcher, activation task, button     *)
(*                callbacks and the tasks that raise flags or call         *)
(*                Schedule, interleaved step by step                       *)
(*   FairSpecApp  SpecApp with fewer external events and with the          *)
(*                scheduler's fairness, for the progress properties        *)
(*   SpecDevice   SpecApp together with the encoder that fills the send    *)
(*                queue and the power-save timer that asks                 *)
(*                CanEnterSleepMode                                        *)
(*   FairSpecSession  the activated device (Idle, protocol created) under  *)
(*                the scheduler's fairness                                 *)
(*   SpecBoot, FairSpecBoot, FairSpecTasks, SpecNetwork  the start of the  *)
(*                device and the tasks beside the dispatcher               *)
(*   SpecSMStart  SpecSM started in the state of a new DeviceStateMachine  *)
(*   SpecReset    the activated device with calls of ResetProtocol         *)
(*   SpecMcp, SpecLogin  McpServer's tools/call and the keycloak tool      *)
(*   SpecSignalr  SignalRClient: RequestReconnect and the reconnect task   *)
(***************************************************************************)
EXTENDS Integers, Sequences, FiniteSets, TLC

(***************************************************************************)
(* DeviceState: the enumeration, named by STATE_STRINGS.                   *)
(***************************************************************************)
kDeviceStateUnknown == "unknown"
kDeviceStateStarting == "starting"
kDeviceStateWifiConfiguring == "wifi_configuring"
kDeviceStateIdle == "idle"
kDeviceStateConnecting == "connecting"
kDeviceStateListening == "listening"
kDeviceStateSpeaking == "speaking"
kDeviceStateUpgrading == "upgrading"
kDeviceStateActivating == "activating"
kDeviceStateAudioTesting == "audio_testing"
kDeviceStateFatalError == "fatal_error"

DeviceStates ==
    { kDeviceStateUnknown, kDeviceStateStarting, kDeviceStateWifiConfiguring,
      kDeviceStateIdle, kDeviceStateConnecting, kDeviceStateListening,
      kDeviceStateSpeaking, kDeviceStateUpgrading, kDeviceStateActivating,
      kDeviceStateAudioTesting, kDeviceStateFatalError }

(***************************************************************************)
(* Bounds of the state-machine harness.                                    *)
(***************************************************************************)
\* listener ids handed out by AddStateChangeListener stay below this
MaxListenerId == 2
\* nesting depth of TransitionTo calls made from inside listener callbacks
MaxDepth == 3

\* targets a listener callback may pass to a re-entrant TransitionTo
ReentryTargets == { kDeviceStateIdle, kDeviceStateSpeaking }

VARIABLES
    current_state_,      \* DeviceStateMachine::current_state_ (atomic)
    listeners_,          \* DeviceStateMachine::listeners_: sequence of [id, cb]
    next_listener_id_,   \* DeviceStateMachine::next_listener_id_
    mutex_,              \* DeviceStateMachine::mutex_: TRUE while locked
    sm_stack,            \* TransitionTo calls in progress, innermost last
    sm_log,              \* listener invocations since the outermost call began
    sm_call,             \* the outermost API call: arguments, result
    sm_pass,             \* the notification pass that finished last
    sm_passes,           \* passes begun since the outermost call began
    sm_deadlock          \* a lock of mutex_ was attempted while it was held

\* the variables only the state-machine harness (SpecSM) moves
sm_h == << mutex_, sm_stack, sm_log, sm_call, sm_pass, sm_passes,
           sm_deadlock >>

VARIABLES
    event_group_,        \* Application::event_group_: the set of pending flags
    main_pc,             \* dispatcher: "init", "wait" (blocked) or "pass"
    bits,                \* Run: the flags returned by xEventGroupWaitBits
    main_i,              \* Run: position in the pass (index of HandlerOrder)
    main_prog,           \* the calls the running handler or task has left
    tasks,               \* Run: the tasks moved out of main_tasks_, not yet run
    pass_log,            \* flags whose handler has run in this pass
    tt,                  \* per thread: the TransitionTo call in progress
    main_tasks_,         \* Application::main_tasks_
    ran,                 \* the tasks run since the last wake
    protocol_,           \* Application::protocol_ is non-null
    channel_open,        \* Protocol::IsAudioChannelOpened()
    listening_mode_,     \* Application::listening_mode_
    aec_mode_,           \* Application::aec_mode_
    voice_processing,    \* AudioService: voice processing (audio processor) on
    wake_word_detection, \* AudioService: wake-word detection on
    act_pc,              \* activation task: position
    activation_task_handle_, \* Application::activation_task_handle_ non-null
    assets_version_checked_, \* Application::assets_version_checked_
    btn_pc,              \* button task: position in OnPressUp
    prod_pc,             \* producer task: position in Schedule
    halted,              \* "no", or how the firmware stopped running
    stimuli,             \* external events the environment may still raise
    faults,              \* failures external operations may still report
    trace,               \* what the running handler or task has done so far
    pass_closes,         \* the calls of CloseAudioChannel in the current pass
    send_queue,          \* AudioService: the encoded packets waiting to be sent
    next_packet,         \* AudioService: the number of the next encoded packet
    sleep_check,         \* the power-save timer's call of CanEnterSleepMode
    last_error_message_, \* Application::last_error_message_
    check_new_version,   \* CheckNewVersion: its locals, and what it has done
    has_activation_code, \* Ota: the server reports an activation code
    power_save_level,    \* Board: the level given to SetPowerSaveLevel last
    audio_service_running \* AudioService: started and not stopped

VARIABLES
    mcp_requests,        \* the tools/call requests ParseMessage has been given
    mcp_tasks,           \* the closures DoToolCall has passed to Schedule
    mcp_calls,           \* the calls of McpTool::Call made so far
    mcp_replies,         \* the calls of ReplyResult and ReplyError so far
    mcp_uncaught         \* an exception has left a closure of DoToolCall

VARIABLES
    s_login_task_running,   \* mcp_server.cc: static volatile bool
    s_login_task_cancelled, \* mcp_server.cc: static volatile bool
    login_pc,            \* login task: position, "none" when no task has the flag
    login_loop,          \* login task: the locals of its polling loop
    login_hist           \* history: tasks created and ended, polls, delays

VARIABLES
    initialized_,        \* SignalRClient::initialized_
    connecting_,         \* SignalRClient::connecting_ (atomic)
    hub_connected,       \* connection_ is in state connected (IsConnected())
    reconnect_requested_,    \* SignalRClient::reconnect_requested_ (atomic)
    reconnect_task_handle_,  \* the task of the handle, 0 for nullptr
    reconnect_task_running_, \* SignalRClient::reconnect_task_running_ (atomic)
    reconnect_task_stack_,   \* the stack and the task buffer are allocated
    reconnect_backoff_ms_,   \* SignalRClient::reconnect_backoff_ms_
    rr_pc,               \* the caller of RequestReconnect: its position
    rc_pc,               \* per reconnect task: its position
    signalr_events       \* calls and connection losses still to come

machine == << current_state_, listeners_, next_listener_id_ >>
disp == << main_pc, bits, main_i, main_prog, tasks, pass_log >>
queue == << main_tasks_, ran >>
session == << protocol_, channel_open, listening_mode_, aec_mode_ >>
audio == << voice_processing, wake_word_detection >>
activation == << act_pc, activation_task_handle_, assets_version_checked_ >>
others == << btn_pc, prod_pc, halted, stimuli, faults >>
hist == << trace, pass_closes >>
boot == << check_new_version, has_activation_code >>
power == << power_save_level, audio_service_running >>
aux == << send_queue, next_packet, sleep_check, last_error_message_, boot,
          power >>

mcp == << mcp_requests, mcp_tasks, mcp_calls, mcp_replies, mcp_uncaught >>
\* the components beside the dispatcher
login == << s_login_task_running, s_login_task_cancelled, login_pc,
           login_loop, login_hist >>
signalr == << initialized_, connecting_, hub_connected, reconnect_requested_,
             reconnect_task_handle_, reconnect_task_running_,
             reconnect_task_stack_, reconnect_backoff_ms_, rr_pc, rc_pc,
             signalr_events >>
ext == << mcp, login, signalr >>

app_h == << event_group_, disp, tt, queue, session, audio, activation,
            others, hist, aux, ext >>

vars == << machine, sm_h, app_h >>

(***************************************************************************)
(* DeviceStateMachine::IsValidTransition: the switch over `from`.          *)
(***************************************************************************)
ValidTargets(from) ==
    CASE from = kDeviceStateUnknown -> { kDeviceStateStarting }
      [] from = kDeviceStateStarting ->
             { kDeviceStateWifiConfiguring, kDeviceStateActivating }
      [] from = kDeviceStateWifiConfiguring ->
             { kDeviceStateActivating, kDeviceStateAudioTesting }
      [] from = kDeviceStateAudioTesting -> { kDeviceStateWifiConfiguring }
      [] from = kDeviceStateActivating ->
             { kDeviceStateUpgrading, kDeviceStateIdle,
               kDeviceStateWifiConfiguring }
      [] from = kDeviceStateUpgrading ->
             { kDeviceStateIdle, kDeviceStateActivating }
      [] from = kDeviceStateIdle ->
             { kDeviceStateConnecting, kDeviceStateListening,
               kDeviceStateSpeaking, kDeviceStateActivating,
               kDeviceStateUpgrading, kDeviceStateWifiConfiguring }
      [] from = kDeviceStateConnecting ->
             { kDeviceStateIdle, kDeviceStateListening }
      [] from = kDeviceStateListening ->
             { kDeviceStateSpeaking, kDeviceStateIdle }
      [] from = kDeviceStateSpeaking ->
             { kDeviceStateListening, kDeviceStateIdle }
      [] from = kDeviceStateFatalError -> {}
      [] OTHER -> {}

\* mutant: the fatal-error case falls through to a permissive default
IsValidTransitionFatalEscapes(from, to) ==
    IF from = to THEN TRUE
    ELSE IF from = kDeviceStateFatalError THEN TRUE
    ELSE to \in ValidTargets(from)

\* mutant: every state may go to Speaking
IsValidTransitionAnyToSpeaking(from, to) ==
    IF from = to THEN TRUE
    ELSE to = kDeviceStateSpeaking \/ to \in ValidTargets(from)

\* mutant: the from == to shortcut is missing
IsValidTransitionNoSelf(from, to) == to \in ValidTargets(from)

\* mutant: every state may go to FatalError
IsValidTransitionAnyToFatal(from, to) ==
    IF from = to THEN TRUE
    ELSE to = kDeviceStateFatalError \/ to \in ValidTargets(from)

IsValidTransition(from, to) ==
    IF from = to THEN TRUE ELSE to \in ValidTargets(from)

(***************************************************************************)
(* DeviceStateMachine::CanTransitionTo                                     *)
(***************************************************************************)
CanTransitionTo(target) == IsValidTransition(current_state_, target)

(***************************************************************************)
(* Listener callbacks.  A callback is a closure; the harness registers     *)
(* closures of four shapes: one that touches nothing of the state machine, *)
(* one that registers a further listener, one that removes the listener    *)
(* with a captured id, one that calls TransitionTo with a captured target. *)
(***************************************************************************)
CbPlain == [k |-> "plain", id |-> 0, st |-> ""]
CbAdd == [k |-> "add", id |-> 0, st |-> ""]
CbRemove(i) == [k |-> "remove", id |-> i, st |-> ""]
CbTransition(s) == [k |-> "transition", id |-> 0, st |-> s]

Callbacks ==
    { CbPlain, CbAdd }
        \cup { CbRemove(i) : i \in 0 .. (MaxListenerId - 1) }
        \cup { CbTransition(s) : s \in ReentryTargets }

Ids(seq) == [i \in 1 .. Len(seq) |-> seq[i].id]

(***************************************************************************)
(* DeviceStateMachine::AddStateChangeListener, RemoveStateChangeListener   *)
(* (the bodies, run with mutex_ held)                                      *)
(***************************************************************************)
\* mutant: the new listener goes to the front of the list
ListenersAfterAddFront(ls, id, cb) == << [id |-> id, cb |-> cb] >> \o ls

ListenersAfterAdd(ls, id, cb) == Append(ls, [id |-> id, cb |-> cb])

ListenersAfterRemove(ls, listener_id) ==
    SelectSeq(ls, LAMBDA p : p.id # listener_id)

(***************************************************************************)
(* DeviceStateMachine::TransitionTo, up to the store                       *)
(***************************************************************************)
\* mutant: the no-op shortcut for old_state == new_state is missing
TransitionToOutcomeNoShortcut(old_state, new_state) ==
    IF ~IsValidTransition(old_state, new_state) THEN "invalid" ELSE "perform"

\* mutant: an invalid transition is logged and performed all the same
TransitionToOutcomeNoReject(old_state, new_state) ==
    IF old_state = new_state THEN "noop" ELSE "perform"

TransitionToOutcome(old_state, new_state) ==
    IF old_state = new_state THEN "noop"
    ELSE IF ~IsValidTransition(old_state, new_state) THEN "invalid"
    ELSE "perform"

(***************************************************************************)
(* DeviceStateMachine::NotifyStateChange                                   *)
(***************************************************************************)
\* mutant: the copy is built back to front
CallbacksCopyReversed(ls) == [i \in 1 .. Len(ls) |-> ls[Len(ls) + 1 - i]]

\* callbacks_copy, built under the lock from listeners_
CallbacksCopy(ls) == [i \in 1 .. Len(ls) |-> ls[i]]

\* mutant: the loop walks listeners_ itself, not the copy
PassCallbacksLive(frame) == listeners_

\* the sequence the invocation loop walks
PassCallbacks(frame) == frame.callbacks_copy

\* mutant: the lock_guard lives to the end of the function
NotifyHoldsLockLong == TRUE

\* whether mutex_ is still held while the callbacks run
NotifyHoldsLock == FALSE

(***************************************************************************)
(* SpecSM: one caller and a DeviceStateMachine.  The caller issues one API *)
(* call at a time; a TransitionTo call runs step by step, and a listener's *)
(* callback may call back into the state machine on the same thread.       *)
(***************************************************************************)
NoCall == [op |-> "none", from |-> "", target |-> "", reg |-> << >>,
           ret |-> FALSE, done |-> TRUE]
NoPass == [num |-> 0, old |-> "", new |-> "", reg |-> << >>]

SMTop == sm_stack[Len(sm_stack)]
SMSetTop(f) == [sm_stack EXCEPT ![Len(sm_stack)] = f]
SMPop == SubSeq(sm_stack, 1, Len(sm_stack) - 1)
SMIdle == sm_stack = << >> /\ ~sm_deadlock

\* a DeviceStateMachine on its own: no Application, no task, no event group
\* McpServer after AddCommonTools and AddUserOnlyTools, no request yet
McpInit ==
    /\ mcp_requests = << >>
    /\ mcp_tasks = << >>
    /\ mcp_calls = << >>
    /\ mcp_replies = << >>
    /\ mcp_uncaught = FALSE

\* the locals of the polling loop before the loop
NoLoginLoop ==
    [i |-> 0, j |-> 0, max_attempts |-> 0, cancelled |-> FALSE,
     success |-> FALSE]

\* mcp_server.cc: the file's statics before the first call of the tool
LoginInit ==
    /\ s_login_task_running = FALSE
    /\ s_login_task_cancelled = FALSE
    /\ login_pc = "none"
    /\ login_loop = NoLoginLoop
    /\ login_hist = [requests |-> 0, created |-> 0, exiting |-> 0,
                     polls |-> 0, delays |-> 0]

\* reconnect tasks created in a run
MaxReconnectTasks == 2
\* calls of Initialize, Reset and RequestReconnect and losses of the
\* connection in a run
MaxSignalrEvents == 5

\* signalr_client.h: the members' initializers
SignalrClientInit ==
    /\ initialized_ = FALSE
    /\ connecting_ = FALSE
    /\ hub_connected = FALSE
    /\ reconnect_requested_ = FALSE
    /\ reconnect_task_handle_ = 0
    /\ reconnect_task_running_ = FALSE
    /\ reconnect_task_stack_ = FALSE
    /\ reconnect_backoff_ms_ = 1000
    /\ rr_pc = "idle"
    /\ rc_pc = [t \in 1 .. MaxReconnectTasks |-> "unborn"]
    /\ signalr_events = MaxSignalrEvents

\* the components beside the dispatcher, before their first call
ExtInit == McpInit /\ LoginInit /\ SignalrClientInit

NoApplication ==
    /\ ExtInit
    /\ event_group_ = {} /\ main_pc = "off" /\ bits = {} /\ main_i = 0
    /\ main_prog = << >> /\ tasks = << >> /\ pass_log = << >>
    /\ tt = << >> /\ main_tasks_ = << >>
    /\ ran = << >> /\ protocol_ = FALSE /\ channel_open = FALSE
    /\ listening_mode_ = "" /\ aec_mode_ = "" /\ voice_processing = FALSE
    /\ wake_word_detection = FALSE /\ act_pc = "off"
    /\ activation_task_handle_ = FALSE /\ assets_version_checked_ = FALSE
    /\ btn_pc = "off" /\ prod_pc = "off" /\ halted = "off"
    /\ stimuli = 0 /\ faults = 0
    /\ trace = << >> /\ pass_closes = << >>
    /\ send_queue = << >> /\ next_packet = 0
    /\ sleep_check = "off"
    /\ last_error_message_ = ""
    /\ check_new_version = "off"
    /\ has_activation_code = FALSE
    /\ power_save_level = "off"
    /\ audio_service_running = FALSE

\* DeviceStateMachine(): the object before any call; the harness starts it
\* in any state, so that every row of the table is exercised
SMInit ==
    /\ NoApplication
    /\ current_state_ \in DeviceStates
    /\ listeners_ = << >>
    /\ next_listener_id_ = 0
    /\ mutex_ = FALSE
    /\ sm_stack = << >>
    /\ sm_log = << >>
    /\ sm_call = NoCall
    /\ sm_pass = NoPass
    /\ sm_passes = 0
    /\ sm_deadlock = FALSE

\* a fresh frame of TransitionTo(new_state)
Frame(new_state) ==
    [pc |-> "load", old_state |-> "", new_state |-> new_state,
     callbacks_copy |-> << >>, idx |-> 0, pass |-> 0, reg |-> << >>,
     stored |-> FALSE]

\* the caller evaluates CanTransitionTo(target)
SMCanTransitionTo ==
    /\ SMIdle
    /\ \E target \in DeviceStates :
          sm_call' = [op |-> "CanTransitionTo", from |-> current_state_,
                      target |-> target, reg |-> listeners_,
                      ret |-> CanTransitionTo(target), done |-> TRUE]
    /\ sm_log' = << >>
    /\ sm_passes' = 0
    /\ sm_pass' = NoPass
    /\ UNCHANGED << current_state_, listeners_, next_listener_id_, mutex_,
                    sm_stack, sm_deadlock >>
    /\ UNCHANGED app_h

\* the caller registers a listener
SMAddStateChangeListener ==
    /\ SMIdle
    /\ next_listener_id_ < MaxListenerId
    /\ \E cb \in Callbacks :
          listeners_' = ListenersAfterAdd(listeners_, next_listener_id_, cb)
    /\ next_listener_id_' = next_listener_id_ + 1
    /\ sm_call' = NoCall
    /\ sm_log' = << >>
    /\ sm_pass' = NoPass
    /\ sm_passes' = 0
    /\ UNCHANGED << current_state_, mutex_, sm_stack, sm_deadlock >>
    /\ UNCHANGED app_h

\* the caller removes a listener by id
SMRemoveStateChangeListener ==
    /\ SMIdle
    /\ \E listener_id \in 0 .. (MaxListenerId - 1) :
          /\ listener_id < next_listener_id_
          /\ listeners_' = ListenersAfterRemove(listeners_, listener_id)
    /\ sm_call' = NoCall
    /\ sm_log' = << >>
    /\ sm_pass' = NoPass
    /\ sm_passes' = 0
    /\ UNCHANGED << current_state_, next_listener_id_, mutex_, sm_stack,
                    sm_deadlock >>
    /\ UNCHANGED app_h

\* the caller enters TransitionTo(target)
SMTransitionTo ==
    /\ SMIdle
    /\ \E target \in DeviceStates :
          /\ sm_stack' = << Frame(target) >>
          /\ sm_call' = [op |-> "TransitionTo", from |-> current_state_,
                         target |-> target, reg |-> listeners_,
                         ret |-> FALSE, done |-> FALSE]
    /\ sm_log' = << >>
    /\ sm_passes' = 0
    /\ sm_pass' = NoPass
    /\ UNCHANGED << current_state_, listeners_, next_listener_id_, mutex_,
                    sm_deadlock >>
    /\ UNCHANGED app_h

\* a TransitionTo frame returns `ret` to whoever called it
SMReturn(ret) ==
    /\ sm_stack' = SMPop
    /\ sm_call' = IF Len(sm_stack) = 1
                  THEN [sm_call EXCEPT !.ret = ret, !.done = TRUE]
                  ELSE sm_call

\* TransitionTo: load current_state_, the no-op and validity checks
SMLoad ==
    /\ sm_stack # << >> /\ ~sm_deadlock
    /\ SMTop.pc = "load"
    /\ LET outcome == TransitionToOutcome(current_state_, SMTop.new_state)
       IN  CASE outcome = "noop" -> SMReturn(TRUE)
             [] outcome = "invalid" -> SMReturn(FALSE)
             [] OTHER ->
                  /\ sm_stack' = SMSetTop([SMTop EXCEPT
                                              !.pc = "store",
                                              !.old_state = current_state_])
                  /\ UNCHANGED sm_call
    /\ UNCHANGED << current_state_, listeners_, next_listener_id_, mutex_,
                    sm_log, sm_pass, sm_passes, sm_deadlock >>
    /\ UNCHANGED app_h

\* TransitionTo: current_state_.store(new_state)
SMStore ==
    /\ sm_stack # << >> /\ ~sm_deadlock
    /\ SMTop.pc = "store"
    /\ current_state_' = SMTop.new_state
    /\ sm_stack' = SMSetTop([SMTop EXCEPT !.pc = "snapshot", !.stored = TRUE])
    /\ UNCHANGED << listeners_, next_listener_id_, mutex_, sm_log, sm_call,
                    sm_pass, sm_passes, sm_deadlock >>
    /\ UNCHANGED app_h

\* NotifyStateChange: lock, copy the callbacks, unlock
SMSnapshot ==
    /\ sm_stack # << >> /\ ~sm_deadlock
    /\ SMTop.pc = "snapshot"
    /\ IF mutex_
       THEN /\ sm_deadlock' = TRUE
            /\ UNCHANGED << mutex_, sm_stack, sm_passes >>
       ELSE /\ mutex_' = NotifyHoldsLock
            /\ sm_passes' = sm_passes + 1
            /\ sm_stack' = SMSetTop([SMTop EXCEPT
                                        !.pc = "invoke",
                                        !.callbacks_copy = CallbacksCopy(listeners_),
                                        !.idx = 1,
                                        !.pass = sm_passes + 1,
                                        !.reg = listeners_])
            /\ UNCHANGED sm_deadlock
    /\ UNCHANGED << current_state_, listeners_, next_listener_id_, sm_log,
                    sm_call, sm_pass >>
    /\ UNCHANGED app_h

\* NotifyStateChange: cb(old_state, new_state) for the next callback
SMInvoke ==
    /\ sm_stack # << >> /\ ~sm_deadlock
    /\ SMTop.pc = "invoke"
    /\ SMTop.idx <= Len(PassCallbacks(SMTop))
    /\ LET f == SMTop
           l == PassCallbacks(f)[f.idx]
           g == [f EXCEPT !.idx = f.idx + 1]
       IN  /\ sm_log' = Append(sm_log,
                               [id |-> l.id, old |-> f.old_state,
                                new |-> f.new_state, pass |-> f.pass,
                                depth |-> Len(sm_stack), stored |-> f.stored])
           /\ CASE l.cb.k = "add" ->
                     /\ next_listener_id_ < MaxListenerId
                     /\ IF mutex_
                        THEN /\ sm_deadlock' = TRUE
                             /\ UNCHANGED << listeners_, next_listener_id_ >>
                        ELSE /\ listeners_' = ListenersAfterAdd(
                                     listeners_, next_listener_id_, CbPlain)
                             /\ next_listener_id_' = next_listener_id_ + 1
                             /\ UNCHANGED sm_deadlock
                     /\ sm_stack' = SMSetTop(g)
                [] l.cb.k = "remove" ->
                     /\ IF mutex_
                        THEN /\ sm_deadlock' = TRUE
                             /\ UNCHANGED listeners_
                        ELSE /\ listeners_' =
                                     ListenersAfterRemove(listeners_, l.cb.id)
                             /\ UNCHANGED sm_deadlock
                     /\ sm_stack' = SMSetTop(g)
                     /\ UNCHANGED next_listener_id_
                [] l.cb.k = "transition" ->
                     /\ Len(sm_stack) < MaxDepth
                     /\ sm_stack' = Append(SMSetTop(g), Frame(l.cb.st))
                     /\ UNCHANGED << listeners_, next_listener_id_,
                                     sm_deadlock >>
                [] OTHER ->
                     /\ sm_stack' = SMSetTop(g)
                     /\ UNCHANGED << listeners_, next_listener_id_,
                                     sm_deadlock >>
    /\ UNCHANGED << current_state_, mutex_, sm_call, sm_pass, sm_passes >>
    /\ UNCHANGED app_h

\* NotifyStateChange returns, and TransitionTo returns true
SMFinish ==
    /\ sm_stack # << >> /\ ~sm_deadlock
    /\ SMTop.pc = "invoke"
    /\ SMTop.idx > Len(PassCallbacks(SMTop))
    /\ sm_pass' = [num |-> SMTop.pass, old |-> SMTop.old_state,
                   new |-> SMTop.new_state, reg |-> SMTop.reg]
    /\ mutex_' = FALSE
    /\ SMReturn(TRUE)
    /\ UNCHANGED << current_state_, listeners_, next_listener_id_, sm_log,
                    sm_passes, sm_deadlock >>
    /\ UNCHANGED app_h

SMNext ==
    \/ SMCanTransitionTo
    \/ SMAddStateChangeListener
    \/ SMRemoveStateChangeListener
    \/ SMTransitionTo
    \/ SMLoad
    \/ SMStore
    \/ SMSnapshot
    \/ SMInvoke
    \/ SMFinish

SpecSM == SMInit /\ [][SMNext]_vars

\* DeviceStateMachine(): current_state_{kDeviceStateUnknown}
SMStartInit ==
    /\ SMInit
    /\ current_state_ = kDeviceStateUnknown

\* the state machine as the firmware constructs it
SpecSMStart == SMStartInit /\ [][SMNext]_vars

(***************************************************************************)
(* The application: event flags, the dispatcher (Application::Run), the    *)
(* handlers, Schedule, the activation task and the board's button task.    *)
(***************************************************************************)
MAIN_EVENT_SCHEDULE == "SCHEDULE"
MAIN_EVENT_SEND_AUDIO == "SEND_AUDIO"
MAIN_EVENT_WAKE_WORD_DETECTED == "WAKE_WORD_DETECTED"
MAIN_EVENT_VAD_CHANGE == "VAD_CHANGE"
MAIN_EVENT_CLOCK_TICK == "CLOCK_TICK"
MAIN_EVENT_ERROR == "ERROR"
MAIN_EVENT_NETWORK_CONNECTED == "NETWORK_CONNECTED"
MAIN_EVENT_NETWORK_DISCONNECTED == "NETWORK_DISCONNECTED"
MAIN_EVENT_TOGGLE_CHAT == "TOGGLE_CHAT"
MAIN_EVENT_START_LISTENING == "START_LISTENING"
MAIN_EVENT_STOP_LISTENING == "STOP_LISTENING"
MAIN_EVENT_ACTIVATION_DONE == "ACTIVATION_DONE"
MAIN_EVENT_STATE_CHANGED == "STATE_CHANGED"

\* Run: ALL_EVENTS
ALL_EVENTS ==
    { MAIN_EVENT_SCHEDULE, MAIN_EVENT_SEND_AUDIO, MAIN_EVENT_WAKE_WORD_DETECTED,
      MAIN_EVENT_VAD_CHANGE, MAIN_EVENT_CLOCK_TICK, MAIN_EVENT_ERROR,
      MAIN_EVENT_NETWORK_CONNECTED, MAIN_EVENT_NETWORK_DISCONNECTED,
      MAIN_EVENT_TOGGLE_CHAT, MAIN_EVENT_START_LISTENING,
      MAIN_EVENT_STOP_LISTENING, MAIN_EVENT_ACTIVATION_DONE,
      MAIN_EVENT_STATE_CHANGED }

\* mutant: the send-audio block is moved to the top of the loop body
HandlerOrderAudioFirst ==
    << MAIN_EVENT_SEND_AUDIO, MAIN_EVENT_ERROR, MAIN_EVENT_NETWORK_CONNECTED,
       MAIN_EVENT_NETWORK_DISCONNECTED, MAIN_EVENT_ACTIVATION_DONE,
       MAIN_EVENT_STATE_CHANGED, MAIN_EVENT_TOGGLE_CHAT,
       MAIN_EVENT_START_LISTENING, MAIN_EVENT_STOP_LISTENING,
       MAIN_EVENT_WAKE_WORD_DETECTED, MAIN_EVENT_VAD_CHANGE,
       MAIN_EVENT_SCHEDULE, MAIN_EVENT_CLOCK_TICK >>

\* Run: the order of the `if (bits & ...)` blocks in the loop body
HandlerOrder ==
    << MAIN_EVENT_ERROR, MAIN_EVENT_NETWORK_CONNECTED,
       MAIN_EVENT_NETWORK_DISCONNECTED, MAIN_EVENT_ACTIVATION_DONE,
       MAIN_EVENT_STATE_CHANGED, MAIN_EVENT_TOGGLE_CHAT,
       MAIN_EVENT_START_LISTENING, MAIN_EVENT_STOP_LISTENING,
       MAIN_EVENT_SEND_AUDIO, MAIN_EVENT_WAKE_WORD_DETECTED,
       MAIN_EVENT_VAD_CHANGE, MAIN_EVENT_SCHEDULE, MAIN_EVENT_CLOCK_TICK >>

kListeningModeAutoStop == "auto_stop"
kListeningModeManualStop == "manual_stop"
kListeningModeRealtime == "realtime"
kAecOff == "aec_off"
kAecOnDeviceSide == "aec_on_device_side"
kAecOnServerSide == "aec_on_server_side"
kAbortReasonNone == "abort_none"
kAbortReasonWakeWordDetected == "abort_wake_word_detected"

\* Application(): aec_mode_ as the build configures it
AecModes == { kAecOff, kAecOnDeviceSide }

\* the messages the protocol reports through OnNetworkError
ErrorMessages == { "server not found", "server timeout" }

\* the listener Application::Initialize registers
CbStateChanged == [k |-> "state_changed", id |-> 0, st |-> ""]

Threads == { "main", "activation", "button", "wifi" }
\* `seen` records the state the store replaced
NoTT == [pc |-> "none", old_state |-> "", new_state |-> "", seen |-> ""]

\* the closures passed to Schedule
TaskKinds ==
    { "closed", "tts_start", "tts_stop", "tool_call", "upgrade",
      "reset_protocol" }

\* calls of a handler, as entries of main_prog
OpSet(state) == [op |-> "set", arg |-> state]
OpOpen(who) == [op |-> "open", arg |-> who]
OpMode(mode) == [op |-> "mode", arg |-> mode]
OpClose == [op |-> "close", arg |-> ""]
OpCloseIfOpen == [op |-> "close_if_open", arg |-> ""]
OpAbort(reason) == [op |-> "abort", arg |-> reason]
OpAlert == [op |-> "alert", arg |-> ""]
\* Alert(Lang::Strings::ERROR, last_error_message_.c_str(), ...)
OpAlertLastError == [op |-> "alert_error", arg |-> ""]
OpStartActivation == [op |-> "start_activation", arg |-> ""]
OpOta == [op |-> "ota", arg |-> ""]
OpReboot == [op |-> "reboot", arg |-> ""]
OpSchedule(kind) == [op |-> "schedule", arg |-> kind]
OpSendAudio == [op |-> "send_audio", arg |-> ""]
OpPower(level) == [op |-> "power", arg |-> level]
OpResetProtocol == [op |-> "reset_protocol", arg |-> ""]

Running == halted = "no"

\* PowerSaveLevel, and the level of a board nobody has set yet
kPowerSaveLowPower == "low_power"
kPowerSavePerformance == "performance"
kPowerSaveBoardDefault == "board_default"

\* CheckNewVersion: MAX_RETRY, the initial retry_delay, the Activate rounds
MAX_RETRY == 10
InitialRetryDelay == 10
ActivateRounds == 10

\* CheckNewVersion has not failed since it began or since its last success;
\* attempts and alerts are history: the calls of CheckVersion and the delays
\* the alerts have announced since then
NoCheckNewVersion ==
    [retry_count |-> 0, retry_delay |-> InitialRetryDelay, i |-> 0,
     attempts |-> 0, alerts |-> << >>]

\* the power-save timer is not inside CanEnterSleepMode; n calls were made
NoSleepCheck(n) ==
    [pc |-> "idle", n |-> n, state |-> "", protocol |-> FALSE,
     opened |-> FALSE, audio_idle |-> FALSE, result |-> FALSE]

(***************************************************************************)
(* Bounds of the application model.                                        *)
(***************************************************************************)
\* external events (flag raises, protocol messages, button presses)
MaxStimuli == 3
\* failures reported by external operations (open, download, version check)
MaxFaults == 1
\* external events in the specification that assumes fair scheduling
MaxLiveStimuli == 2
\* external events while the device starts: the network, one other event
MaxBootStimuli == 2
\* the same in the specifications that assume fair scheduling
MaxLiveBootStimuli == 1

(***************************************************************************)
(* Initial states: the object after Application(), and the device at rest  *)
(* after a completed activation (Idle, protocol created, channel closed).  *)
(***************************************************************************)
AppCommonInit ==
    /\ ExtInit
    /\ event_group_ = {}
    /\ bits = {}
    /\ main_i = 0
    /\ main_prog = << >>
    /\ tasks = << >>
    /\ pass_log = << >>
    /\ tt = [th \in Threads |-> NoTT]
    /\ main_tasks_ = << >>
    /\ ran = << >>
    /\ channel_open = FALSE
    /\ listening_mode_ = kListeningModeAutoStop
    /\ voice_processing = FALSE
    /\ act_pc = "none"
    /\ activation_task_handle_ = FALSE
    /\ btn_pc = "idle"
    /\ prod_pc = "idle"
    /\ halted = "no"
    /\ trace = << >>
    /\ pass_closes = << >>
    /\ send_queue = << >>
    /\ next_packet = 1
    /\ sleep_check = NoSleepCheck(0)
    /\ last_error_message_ = ""
    /\ check_new_version = NoCheckNewVersion

\* Application::Application()
InitBoot ==
    /\ AppCommonInit
    /\ current_state_ = kDeviceStateUnknown
    /\ listeners_ = << >>
    /\ next_listener_id_ = 0
    /\ main_pc = "init"
    /\ protocol_ = FALSE
    /\ wake_word_detection = FALSE
    /\ assets_version_checked_ = FALSE
    /\ power_save_level = kPowerSaveBoardDefault
    /\ audio_service_running = FALSE

\* the state HandleActivationDoneEvent and the state-entry handler leave
InitSteady ==
    /\ AppCommonInit
    /\ current_state_ = kDeviceStateIdle
    /\ listeners_ = << [id |-> 0, cb |-> CbStateChanged] >>
    /\ next_listener_id_ = 1
    /\ main_pc = "wait"
    /\ protocol_ = TRUE
    /\ wake_word_detection = TRUE
    /\ assets_version_checked_ = TRUE
    /\ power_save_level = kPowerSaveLowPower
    /\ audio_service_running = TRUE

SMQuiet ==
    /\ mutex_ = FALSE
    /\ sm_stack = << >>
    /\ sm_log = << >>
    /\ sm_call = NoCall
    /\ sm_pass = NoPass
    /\ sm_passes = 0
    /\ sm_deadlock = FALSE

\* the server has activated the device before
AppStart ==
    /\ InitBoot \/ InitSteady
    /\ aec_mode_ \in AecModes
    /\ has_activation_code = FALSE
    /\ SMQuiet

\* the device that starts meets MaxBootStimuli events, the device at rest
\* MaxStimuli
AppInit ==
    /\ AppStart
    /\ stimuli = IF main_pc = "init" THEN MaxBootStimuli ELSE MaxStimuli
    /\ faults = MaxFaults

AppLiveInit ==
    /\ AppStart
    /\ stimuli = IF main_pc = "init" THEN MaxLiveBootStimuli
                 ELSE MaxLiveStimuli
    /\ faults = MaxFaults

(***************************************************************************)
(* The record of a handler or a task: how control entered it, the calls it *)
(* has made, and the stores to current_state_ that any task has made       *)
(* meanwhile.  pass_closes keeps, for the whole pass, the entry record of  *)
(* each handler that called CloseAudioChannel.  Both are history only: no  *)
(* action reads them.                                                      *)
(***************************************************************************)
\* control enters the block of `flag`; s and o are the state and the
\* channel as the block finds them
EvBegin(flag) ==
    [e |-> "begin", a |-> flag, s |-> current_state_, o |-> channel_open,
     n |-> 0]

\* a scheduled closure starts
EvTask(kind) ==
    [e |-> "task", a |-> kind, s |-> current_state_, o |-> channel_open,
     n |-> 0]

\* current_state_.store(new_state) by thread th
EvState(new_state, th) ==
    [e |-> "state", a |-> new_state, s |-> th, o |-> FALSE, n |-> 0]

\* protocol_->OpenAudioChannel() has returned ok
EvOpen(ok) ==
    [e |-> "open", a |-> IF ok THEN "ok" ELSE "fail", s |-> "", o |-> ok,
     n |-> 0]

\* protocol_->CloseAudioChannel() has been called
EvClose ==
    [e |-> "close", a |-> "", s |-> "", o |-> channel_open, n |-> 0]

\* protocol_->SendAbortSpeaking(reason) has been called
EvAbort(reason) ==
    [e |-> "abort", a |-> reason, s |-> "", o |-> FALSE, n |-> 0]

\* Alert(status, message, ...) has been called
EvAlert(message) ==
    [e |-> "alert", a |-> message, s |-> "", o |-> FALSE, n |-> 0]

\* the state-entry handler has called `name` of the audio service or of the
\* protocol: s is the listening mode passed, o the flag passed
EvCall(name, mode, on) ==
    [e |-> "call", a |-> name, s |-> mode, o |-> on, n |-> 0]

\* protocol_->SendAudio(packet) has returned ok for packet number n
EvSend(n, ok) ==
    [e |-> "send", a |-> IF ok THEN "ok" ELSE "fail", s |-> "", o |-> ok,
     n |-> n]

(***************************************************************************)
(* TransitionTo as the application's threads run it: the load and the      *)
(* checks, then the store, then NotifyStateChange, as separate steps.      *)
(***************************************************************************)
\* mutant: TransitionTo goes on to the store whatever the checks say
TTBeginUnchecked(th, new_state) ==
    tt' = [tt EXCEPT ![th] =
              [pc |-> "store", old_state |-> current_state_,
               new_state |-> new_state, seen |-> ""]]

\* TransitionTo: old_state = current_state_.load(), no-op and validity checks
TTBegin(th, new_state) ==
    tt' = [tt EXCEPT ![th] =
              IF TransitionToOutcome(current_state_, new_state) = "perform"
              THEN [pc |-> "store", old_state |-> current_state_,
                    new_state |-> new_state, seen |-> ""]
              ELSE NoTT]

\* the dispatcher is inside a handler or a task that has not returned yet
InHandler ==
    /\ main_pc = "pass"
    /\ main_prog # << >> \/ tt["main"].pc # "none"

\* TransitionTo: current_state_.store(new_state)
TTStore(th) ==
    /\ Running
    /\ tt[th].pc = "store"
    /\ current_state_' = tt[th].new_state
    /\ tt' = [tt EXCEPT ![th].pc = "notify", ![th].seen = current_state_]
    /\ trace' = IF th = "main" \/ InHandler
                THEN Append(trace, EvState(tt[th].new_state, th))
                ELSE trace
    /\ UNCHANGED pass_closes
    /\ UNCHANGED << listeners_, next_listener_id_, sm_h, ext, event_group_, disp,
                    queue, session, audio, activation, others >>
    /\ UNCHANGED aux

\* the flags the callbacks of one notification pass set
NotifiedBits(cbs) ==
    IF \E i \in 1 .. Len(cbs) : cbs[i].cb.k = "state_changed"
    THEN { MAIN_EVENT_STATE_CHANGED }
    ELSE {}

\* TransitionTo: NotifyStateChange(old_state, new_state), return true
TTNotify(th) ==
    /\ Running
    /\ tt[th].pc = "notify"
    /\ event_group_' = event_group_ \cup
           NotifiedBits(PassCallbacks(
               [callbacks_copy |-> CallbacksCopy(listeners_)]))
    /\ tt' = [tt EXCEPT ![th] = NoTT]
    /\ UNCHANGED << machine, sm_h, ext, disp, queue, session, audio, activation,
                    others >>
    /\ UNCHANGED << hist, aux >>

(***************************************************************************)
(* Application::Initialize                                                 *)
(***************************************************************************)
Initialize ==
    /\ Running
    /\ main_pc = "init"
    /\ current_state_' =
           IF TransitionToOutcome(current_state_, kDeviceStateStarting)
                  = "perform"
           THEN kDeviceStateStarting
           ELSE current_state_
    /\ listeners_' = ListenersAfterAdd(listeners_, next_listener_id_,
                                       CbStateChanged)
    /\ next_listener_id_' = next_listener_id_ + 1
    /\ main_pc' = "wait"
    /\ audio_service_running' = TRUE
    /\ UNCHANGED << sm_h, ext, event_group_, bits, main_i, main_prog, tasks,
                    pass_log, tt, queue, session, audio, activation, others >>
    /\ UNCHANGED << hist, send_queue, next_packet, sleep_check,
                    last_error_message_, boot, power_save_level >>

(***************************************************************************)
(* Application::Run: the wait and the walk over the flags                  *)
(***************************************************************************)
\* mutant: xEventGroupWaitBits is called with xClearOnExit = pdFALSE
ClearOnExitNever == FALSE

\* xEventGroupWaitBits(event_group_, ALL_EVENTS, pdTRUE, pdFALSE, ...)
ClearOnExit == TRUE

Wake ==
    /\ Running
    /\ main_pc = "wait"
    /\ event_group_ \cap ALL_EVENTS # {}
    /\ bits' = event_group_
    /\ event_group_' = IF ClearOnExit THEN event_group_ \ ALL_EVENTS
                       ELSE event_group_
    /\ main_pc' = "pass"
    /\ main_i' = 0
    /\ pass_log' = << >>
    /\ ran' = << >>
    /\ trace' = << >>
    /\ pass_closes' = << >>
    /\ UNCHANGED << machine, sm_h, ext, main_prog, tasks, tt, main_tasks_,
                    session, audio, activation, others >>
    /\ UNCHANGED aux

\* the next `if (bits & ...)` block whose flag is set, 0 when there is none
NextIdx ==
    LET c == { j \in (main_i + 1) .. Len(HandlerOrder) :
                  HandlerOrder[j] \in bits }
    IN  IF c = {} THEN 0 ELSE CHOOSE j \in c : \A k \in c : j <= k

\* the dispatcher is between two blocks of the loop body
MainReady ==
    /\ Running
    /\ main_pc = "pass"
    /\ main_prog = << >>
    /\ tasks = << >>
    /\ tt["main"].pc = "none"

\* the dispatcher is inside a handler or a task, about to make a call
MainAt(op) ==
    /\ Running
    /\ main_pc = "pass"
    /\ main_prog # << >>
    /\ tt["main"].pc = "none"
    /\ Head(main_prog).op = op

\* control enters the block of `flag`
BeginWith(flag, calls) ==
    /\ MainReady
    /\ NextIdx # 0
    /\ HandlerOrder[NextIdx] = flag
    /\ main_i' = NextIdx
    /\ pass_log' = Append(pass_log, flag)
    /\ trace' = << EvBegin(flag) >> \o calls
    /\ UNCHANGED pass_closes
    /\ UNCHANGED << main_pc, bits >>

Begin(flag) == BeginWith(flag, << >>)

\* every closure that is known to the dispatcher, in the order in which it
\* has run them or will run them: run in this pass, moved out, still queued
Known == ran \o tasks \o main_tasks_

\* history: a closure is stamped with the rank of its insertion
NextSeq ==
    LET used == { Known[i].seq : i \in 1 .. Len(Known) } \cup { 0 }
    IN  1 + CHOOSE n \in used : \A m \in used : m <= n

\* the stamps renumbered 1, 2, ... in the order of the stamps
Renumbered(q) ==
    [i \in 1 .. Len(q) |->
        [q[i] EXCEPT !.late = FALSE,
                     !.seq = Cardinality({ j \in 1 .. Len(q) :
                                             q[j].seq <= q[i].seq })]]

\* the end of the loop body: back to xEventGroupWaitBits
PassEnd ==
    /\ MainReady
    /\ NextIdx = 0
    /\ main_pc' = "wait"
    /\ bits' = {}
    /\ main_i' = 0
    /\ pass_log' = << >>
    /\ ran' = << >>
    /\ trace' = << >>
    /\ pass_closes' = << >>
    /\ main_tasks_' = Renumbered(main_tasks_)
    /\ UNCHANGED << machine, sm_h, ext, event_group_, main_prog, tasks, tt,
                    session, audio, activation, others >>
    /\ UNCHANGED aux

\* what a handler that only decides on a sequence of calls leaves unchanged
OnlyProg ==
    UNCHANGED << machine, sm_h, ext, event_group_, tasks, tt, queue, session,
                 audio, activation, others >>

\* the calls that open the audio channel from Idle and enter Listening
OpenSequence(who, mode) ==
    IF ~channel_open
    THEN << OpSet(kDeviceStateConnecting), OpOpen(who), OpMode(mode),
            OpSet(kDeviceStateListening) >>
    ELSE << OpMode(mode), OpSet(kDeviceStateListening) >>

\* aec_mode_ == kAecOff ? kListeningModeAutoStop : kListeningModeRealtime
DefaultListeningMode ==
    IF aec_mode_ = kAecOff THEN kListeningModeAutoStop
    ELSE kListeningModeRealtime

\* Run: if (bits & MAIN_EVENT_ERROR)
HandleErrorEvent ==
    /\ Begin(MAIN_EVENT_ERROR)
    /\ main_prog' = << OpSet(kDeviceStateIdle), OpAlertLastError >>
    /\ OnlyProg
    /\ UNCHANGED aux

HandleNetworkConnectedEvent ==
    /\ Begin(MAIN_EVENT_NETWORK_CONNECTED)
    /\ main_prog' =
           IF current_state_ \in { kDeviceStateStarting,
                                   kDeviceStateWifiConfiguring }
           THEN << OpSet(kDeviceStateActivating), OpStartActivation >>
           ELSE << >>
    /\ OnlyProg
    /\ UNCHANGED aux

\* mutant: the handler forgets the Listening state
ConversationStatesNoListening ==
    { kDeviceStateConnecting, kDeviceStateSpeaking }

\* the states in which the loss of the network closes the conversation
ConversationStates ==
    { kDeviceStateConnecting, kDeviceStateListening, kDeviceStateSpeaking }

HandleNetworkDisconnectedEvent ==
    /\ Begin(MAIN_EVENT_NETWORK_DISCONNECTED)
    /\ main_prog' =
           IF current_state_ \in ConversationStates
           THEN << OpClose >>
           ELSE << >>
    /\ OnlyProg
    /\ UNCHANGED aux

HandleActivationDoneEvent ==
    /\ Begin(MAIN_EVENT_ACTIVATION_DONE)
    /\ main_prog' = << OpSet(kDeviceStateIdle),
                       OpPower(kPowerSaveLowPower) >>
    /\ OnlyProg
    /\ UNCHANGED aux

\* audio_service_.IsAudioProcessorRunning()
IsAudioProcessorRunning == voice_processing

EnableVoiceProcessing(on) == EvCall("EnableVoiceProcessing", "", on)
EnableWakeWordDetection(on) == EvCall("EnableWakeWordDetection", "", on)
WaitForPlaybackQueueEmpty == EvCall("WaitForPlaybackQueueEmpty", "", FALSE)
SendStartListening(mode) == EvCall("SendStartListening", mode, FALSE)
ResetDecoder == EvCall("ResetDecoder", "", FALSE)
\* audio_service_.IsAfeWakeWord() has returned afe
IsAfeWakeWord(afe) == EvCall("IsAfeWakeWord", "", afe)

\* mutant: the Idle entry leaves wake-word detection alone
IdleEntryCallsNoWakeWord == << EnableVoiceProcessing(FALSE) >>

\* HandleStateChangedEvent: case kDeviceStateUnknown, kDeviceStateIdle
IdleEntryCalls ==
    << EnableVoiceProcessing(FALSE), EnableWakeWordDetection(TRUE) >>

\* mutant: the Listening entry enables voice processing before it tells
\* the server
ListeningEntryCallsProcessingFirst(mode) ==
    (IF mode = kListeningModeAutoStop
     THEN << WaitForPlaybackQueueEmpty >> ELSE << >>)
    \o << EnableVoiceProcessing(TRUE), SendStartListening(mode),
          EnableWakeWordDetection(FALSE) >>

\* HandleStateChangedEvent: case kDeviceStateListening, inside
\* if (!audio_service_.IsAudioProcessorRunning())
ListeningEntryCalls(mode) ==
    (IF mode = kListeningModeAutoStop
     THEN << WaitForPlaybackQueueEmpty >> ELSE << >>)
    \o << SendStartListening(mode), EnableVoiceProcessing(TRUE),
          EnableWakeWordDetection(FALSE) >>

\* HandleStateChangedEvent: case kDeviceStateSpeaking; afe is what
\* audio_service_.IsAfeWakeWord() returns
SpeakingEntryCalls(mode, afe) ==
    (IF mode # kListeningModeRealtime
     THEN << EnableVoiceProcessing(FALSE), IsAfeWakeWord(afe),
             EnableWakeWordDetection(afe) >>
     ELSE << >>)
    \o << ResetDecoder >>

\* HandleStateChangedEvent: the calls of switch (new_state)
StateEntryCalls(new_state, afe) ==
    CASE new_state \in { kDeviceStateUnknown, kDeviceStateIdle } ->
             IdleEntryCalls
      [] new_state = kDeviceStateListening ->
             IF IsAudioProcessorRunning THEN << >>
             ELSE ListeningEntryCalls(listening_mode_)
      [] new_state = kDeviceStateSpeaking ->
             SpeakingEntryCalls(listening_mode_, afe)
      [] new_state = kDeviceStateWifiConfiguring ->
             << EnableVoiceProcessing(FALSE),
                EnableWakeWordDetection(FALSE) >>
      [] OTHER -> << >>

\* the flag that the last call of `name` in calls has passed, or `now` when
\* there is none
Setting(calls, name, now) ==
    LET made == SelectSeq(calls, LAMBDA ev : ev.a = name)
    IN  IF made = << >> THEN now ELSE made[Len(made)].o

\* the calls made before the first one that goes through protocol_
BeforeProtocol(calls) ==
    LET first == CHOOSE i \in 1 .. Len(calls) + 1 :
                    /\ i <= Len(calls) => calls[i].a = "SendStartListening"
                    /\ \A j \in 1 .. i - 1 :
                          calls[j].a # "SendStartListening"
    IN  SubSeq(calls, 1, first - 1)

\* Run: if (bits & MAIN_EVENT_STATE_CHANGED) HandleStateChangedEvent(): the
\* handler reads the state, makes the calls of its case in order and
\* returns; a call through a null protocol_ ends the firmware
HandleStateChangedEvent ==
    /\ main_prog' = << >>
    /\ \E afe \in IF current_state_ = kDeviceStateSpeaking
                        /\ listening_mode_ # kListeningModeRealtime
                  THEN BOOLEAN ELSE { FALSE } :
          LET new_state == current_state_
              calls == StateEntryCalls(new_state, afe)
          IN  IF ~protocol_ /\ BeforeProtocol(calls) # calls
              THEN /\ BeginWith(MAIN_EVENT_STATE_CHANGED,
                                BeforeProtocol(calls))
                   /\ halted' = "crash"
                   /\ UNCHANGED audio
              ELSE /\ BeginWith(MAIN_EVENT_STATE_CHANGED, calls)
                   /\ voice_processing' =
                          Setting(calls, "EnableVoiceProcessing",
                                  voice_processing)
                   /\ wake_word_detection' =
                          Setting(calls, "EnableWakeWordDetection",
                                  wake_word_detection)
                   /\ UNCHANGED halted
    /\ UNCHANGED << machine, sm_h, ext, event_group_, tasks, tt, queue, session,
                    activation, btn_pc, prod_pc, stimuli, faults >>
    /\ UNCHANGED aux

HandleToggleChatEvent ==
    /\ Begin(MAIN_EVENT_TOGGLE_CHAT)
    /\ LET state == current_state_
       IN  main_prog' =
             CASE state = kDeviceStateActivating ->
                      << OpSet(kDeviceStateIdle) >>
               [] state = kDeviceStateWifiConfiguring ->
                      << OpSet(kDeviceStateAudioTesting) >>
               [] state = kDeviceStateAudioTesting ->
                      << OpSet(kDeviceStateWifiConfiguring) >>
               [] OTHER ->
                      IF ~protocol_ THEN << >>
                      ELSE CASE state = kDeviceStateIdle ->
                                   OpenSequence("", DefaultListeningMode)
                             [] state = kDeviceStateSpeaking ->
                                   << OpAbort(kAbortReasonNone) >>
                             [] state = kDeviceStateListening ->
                                   << OpClose >>
                             [] OTHER -> << >>
    /\ OnlyProg
    /\ UNCHANGED aux

HandleStartListeningEvent ==
    /\ Begin(MAIN_EVENT_START_LISTENING)
    /\ LET state == current_state_
       IN  main_prog' =
             CASE state = kDeviceStateActivating ->
                      << OpSet(kDeviceStateIdle) >>
               [] state = kDeviceStateWifiConfiguring ->
                      << OpSet(kDeviceStateAudioTesting) >>
               [] OTHER ->
                      IF ~protocol_ THEN << >>
                      ELSE CASE state = kDeviceStateIdle ->
                                   OpenSequence("", kListeningModeManualStop)
                             [] state = kDeviceStateSpeaking ->
                                   << OpAbort(kAbortReasonNone),
                                      OpMode(kListeningModeManualStop),
                                      OpSet(kDeviceStateListening) >>
                             [] OTHER -> << >>
    /\ OnlyProg
    /\ UNCHANGED aux

HandleStopListeningEvent ==
    /\ Begin(MAIN_EVENT_STOP_LISTENING)
    /\ LET state == current_state_
       IN  main_prog' =
             CASE state = kDeviceStateAudioTesting ->
                      << OpSet(kDeviceStateWifiConfiguring) >>
               [] state = kDeviceStateListening ->
                      << OpSet(kDeviceStateIdle) >>
               [] OTHER -> << >>
    /\ OnlyProg
    /\ UNCHANGED aux

\* Run: if (bits & MAIN_EVENT_SEND_AUDIO)
HandleSendAudio ==
    /\ Begin(MAIN_EVENT_SEND_AUDIO)
    /\ main_prog' = << OpSendAudio >>
    /\ OnlyProg
    /\ UNCHANGED aux

HandleWakeWordDetectedEvent ==
    /\ Begin(MAIN_EVENT_WAKE_WORD_DETECTED)
    /\ LET state == current_state_
       IN  main_prog' =
             IF ~protocol_ THEN << >>
             ELSE CASE state = kDeviceStateIdle ->
                          OpenSequence("wake_word", DefaultListeningMode)
                    [] state = kDeviceStateSpeaking ->
                          << OpAbort(kAbortReasonWakeWordDetected) >>
                    [] state = kDeviceStateActivating ->
                          << OpSet(kDeviceStateIdle) >>
                    [] OTHER -> << >>
    /\ OnlyProg
    /\ UNCHANGED aux

\* Run: if (bits & MAIN_EVENT_VAD_CHANGE)
HandleVadChange ==
    /\ Begin(MAIN_EVENT_VAD_CHANGE)
    /\ main_prog' = << >>
    /\ OnlyProg
    /\ UNCHANGED aux

\* Run: if (bits & MAIN_EVENT_CLOCK_TICK)
HandleClockTick ==
    /\ Begin(MAIN_EVENT_CLOCK_TICK)
    /\ main_prog' = << >>
    /\ OnlyProg
    /\ UNCHANGED aux

(***************************************************************************)
(* Application::Schedule and the drain of Run                              *)
(***************************************************************************)
\* the current pass has already moved main_tasks_ into its local list
AfterMove ==
    /\ main_pc = "pass"
    /\ \E j \in 1 .. main_i : HandlerOrder[j] = MAIN_EVENT_SCHEDULE

\* mutant: Schedule inserts at the front of the list
PushedFront(kind) ==
    << [kind |-> kind, late |-> AfterMove, seq |-> NextSeq] >> \o main_tasks_

\* Schedule: main_tasks_.push_back(callback)
Pushed(kind) ==
    Append(main_tasks_, [kind |-> kind, late |-> AfterMove, seq |-> NextSeq])

\* mutant: the loop of the drain walks main_tasks_ itself after the local list
DrainListLive(moved, live) == moved \o live

\* Run: for (auto& task : tasks), tasks being the list moved out under the lock
DrainList(moved, live) == moved

\* Run: if (bits & MAIN_EVENT_SCHEDULE): lock, move, unlock
HandleSchedule ==
    /\ Begin(MAIN_EVENT_SCHEDULE)
    /\ tasks' = main_tasks_
    /\ main_tasks_' = << >>
    /\ main_prog' = << >>
    /\ UNCHANGED << machine, sm_h, ext, event_group_, tt, ran, session, audio,
                    activation, others >>
    /\ UNCHANGED aux

\* mutant: the "stop" closure goes back to Listening whatever the mode
TtsStopTargetListening == kDeviceStateListening

\* the "stop" closure: Idle for ManualStop, Listening for the other modes
TtsStopTarget ==
    IF listening_mode_ = kListeningModeManualStop THEN kDeviceStateIdle
    ELSE kDeviceStateListening

\* the calls of a scheduled closure
TaskProgram(kind) ==
    CASE kind = "closed" -> << OpSet(kDeviceStateIdle) >>
      [] kind = "tts_start" -> << OpSet(kDeviceStateSpeaking) >>
      [] kind = "tts_stop" ->
             IF current_state_ = kDeviceStateSpeaking
             THEN << OpSet(TtsStopTarget) >>
             ELSE << >>
      [] kind = "tool_call" -> << OpSchedule("upgrade") >>
      [] kind = "upgrade" ->
             << OpCloseIfOpen, OpAlert, OpSet(kDeviceStateUpgrading), OpOta >>
      [] kind = "reset_protocol" -> << OpCloseIfOpen, OpResetProtocol >>
      [] OTHER -> << >>

\* Run: task()
RunTask ==
    /\ Running
    /\ main_pc = "pass"
    /\ main_prog = << >>
    /\ tt["main"].pc = "none"
    /\ main_i >= 1
    /\ HandlerOrder[main_i] = MAIN_EVENT_SCHEDULE
    /\ LET list == DrainList(tasks, main_tasks_)
       IN  /\ list # << >>
           /\ ran' = Append(ran, Head(list))
           /\ trace' = << EvTask(Head(list).kind) >>
           /\ UNCHANGED pass_closes
           /\ main_prog' = TaskProgram(Head(list).kind)
           /\ IF tasks # << >>
              THEN tasks' = Tail(tasks) /\ UNCHANGED main_tasks_
              ELSE main_tasks_' = Tail(main_tasks_) /\ UNCHANGED tasks
    /\ UNCHANGED << machine, sm_h, ext, event_group_, main_pc, bits, main_i,
                    pass_log, tt, session, audio, activation, others >>
    /\ UNCHANGED aux

(***************************************************************************)
(* The calls a handler or a task makes on the dispatcher                   *)
(***************************************************************************)
\* SetDeviceState(state): the load and the checks of TransitionTo
MainSetDeviceState ==
    /\ MainAt("set")
    /\ TTBegin("main", Head(main_prog).arg)
    /\ main_prog' = Tail(main_prog)
    /\ UNCHANGED << machine, sm_h, ext, event_group_, main_pc, bits, main_i,
                    tasks, pass_log, queue, session, audio, activation,
                    others >>
    /\ UNCHANGED << hist, aux >>

\* protocol_->OpenAudioChannel(), and the return of the handler when it fails
MainOpenAudioChannel ==
    /\ MainAt("open")
    /\ UNCHANGED pass_closes
    /\ \/ /\ channel_open' = TRUE
          /\ power_save_level' = kPowerSavePerformance
          /\ main_prog' = Tail(main_prog)
          /\ trace' = Append(trace, EvOpen(TRUE))
          /\ UNCHANGED << event_group_, audio, faults, last_error_message_ >>
       \/ /\ faults > 0
          /\ faults' = faults - 1
          /\ main_prog' = << >>
          /\ trace' = Append(trace, EvOpen(FALSE))
          /\ \/ UNCHANGED << event_group_, last_error_message_ >>
             \/ \E message \in ErrorMessages :
                   /\ last_error_message_' = message
                   /\ event_group_' = event_group_ \cup { MAIN_EVENT_ERROR }
          /\ wake_word_detection' =
                 IF Head(main_prog).arg = "wake_word" THEN TRUE
                 ELSE wake_word_detection
          /\ UNCHANGED << channel_open, voice_processing,
                          power_save_level >>
    /\ UNCHANGED << machine, sm_h, ext, main_pc, bits, main_i, tasks, pass_log, tt,
                    queue, protocol_, listening_mode_, aec_mode_, activation,
                    btn_pc, prod_pc, halted, stimuli >>
    /\ UNCHANGED << send_queue, next_packet, sleep_check, boot,
                    audio_service_running >>

\* SetListeningMode: listening_mode_ = mode
MainSetListeningMode ==
    /\ MainAt("mode")
    /\ listening_mode_' = Head(main_prog).arg
    /\ main_prog' = Tail(main_prog)
    /\ UNCHANGED << machine, sm_h, ext, event_group_, main_pc, bits, main_i,
                    tasks, pass_log, tt, queue, protocol_, channel_open,
                    aec_mode_, audio, activation, others >>
    /\ UNCHANGED << hist, aux >>

\* Protocol::CloseAudioChannel invokes the callback given to
\* OnAudioChannelClosed when it closes a channel; when there is none to close
\* it may or may not
ChannelClosedReports == IF channel_open THEN { TRUE } ELSE BOOLEAN

\* protocol_->CloseAudioChannel(), which reports through OnAudioChannelClosed
MainCloseAudioChannel ==
    /\ \/ MainAt("close")
       \/ MainAt("close_if_open") /\ protocol_ /\ channel_open
    /\ IF ~protocol_
       THEN /\ halted' = "crash"
            /\ UNCHANGED << event_group_, main_prog, main_tasks_,
                            channel_open, hist, power_save_level >>
       ELSE /\ channel_open' = FALSE
            /\ main_prog' = Tail(main_prog)
            /\ trace' = Append(trace, EvClose)
            /\ pass_closes' = Append(pass_closes, trace[1])
            /\ \E closed \in ChannelClosedReports :
                  IF closed
                  THEN /\ power_save_level' = kPowerSaveLowPower
                       /\ main_tasks_' = Pushed("closed")
                       /\ event_group_' =
                              event_group_ \cup { MAIN_EVENT_SCHEDULE }
                  ELSE UNCHANGED << main_tasks_, event_group_,
                                    power_save_level >>
            /\ UNCHANGED halted
    /\ UNCHANGED << machine, sm_h, ext, main_pc, bits, main_i, tasks, pass_log, tt,
                    ran, protocol_, listening_mode_, aec_mode_, audio,
                    activation, btn_pc, prod_pc, stimuli, faults >>
    /\ UNCHANGED << send_queue, next_packet, sleep_check,
                    last_error_message_, boot, audio_service_running >>

\* mutant: the alert of the error block shows no message
AlertMessageEmpty == ""

\* the message argument of the alert of the error block
AlertMessage == last_error_message_

\* calls that leave the modelled state alone: the skipped close of
\* `if (protocol_ && protocol_->IsAudioChannelOpened())`, AbortSpeaking, Alert
MainCall ==
    /\ \/ MainAt("close_if_open") /\ ~(protocol_ /\ channel_open)
       \/ MainAt("abort")
       \/ MainAt("alert")
       \/ MainAt("alert_error")
    /\ main_prog' = Tail(main_prog)
    /\ trace' = CASE Head(main_prog).op = "abort" ->
                       Append(trace, EvAbort(Head(main_prog).arg))
                  [] Head(main_prog).op = "alert_error" ->
                       Append(trace, EvAlert(AlertMessage))
                  [] OTHER -> trace
    /\ UNCHANGED pass_closes
    /\ UNCHANGED << machine, sm_h, ext, event_group_, main_pc, bits, main_i,
                    tasks, pass_log, tt, queue, session, audio, activation,
                    others >>
    /\ UNCHANGED aux

\* Schedule called by a closure that runs on the dispatcher
MainSchedule ==
    /\ MainAt("schedule")
    /\ main_tasks_' = Pushed(Head(main_prog).arg)
    /\ event_group_' = event_group_ \cup { MAIN_EVENT_SCHEDULE }
    /\ main_prog' = Tail(main_prog)
    /\ UNCHANGED << machine, sm_h, ext, main_pc, bits, main_i, tasks, pass_log, tt,
                    ran, session, audio, activation, others >>
    /\ UNCHANGED << hist, aux >>

\* Protocol::SendAudio returns true or, when it cannot send, false
SendAudioResults == BOOLEAN

\* mutant: the loop goes on to the next packet when SendAudio fails
LoopBreaksNever(sent_ok) == FALSE

\* if (protocol_ && !protocol_->SendAudio(std::move(packet))) break;
LoopBreaks(sent_ok) == ~sent_ok

\* mutant: the packet is read and left at the front of the queue
AfterPopLeft(q) == q

\* the send queue after PopPacketFromSendQueue has returned its front packet
AfterPop(q) == Tail(q)

\* Run: one turn of `while (auto packet = PopPacketFromSendQueue())`
MainSendAudio ==
    /\ MainAt("send_audio")
    /\ IF send_queue = << >>
       THEN /\ main_prog' = Tail(main_prog)
            /\ UNCHANGED << send_queue, trace >>
       ELSE /\ send_queue' = AfterPop(send_queue)
            /\ IF ~protocol_
               THEN UNCHANGED << main_prog, trace >>
               ELSE \E sent_ok \in SendAudioResults :
                       /\ trace' = Append(trace,
                                          EvSend(Head(send_queue), sent_ok))
                       /\ main_prog' = IF LoopBreaks(sent_ok)
                                       THEN Tail(main_prog)
                                       ELSE main_prog
    /\ UNCHANGED << machine, sm_h, ext, event_group_, main_pc, bits, main_i,
                    tasks, pass_log, tt, queue, session, audio, activation,
                    others, pass_closes, next_packet, sleep_check,
                    last_error_message_, boot, power >>

\* mutant: the handler never finds an activation task running
ActivationAlreadyRunningNever == FALSE

\* HandleNetworkConnectedEvent: if (activation_task_handle_ != nullptr)
ActivationAlreadyRunning == activation_task_handle_

\* HandleNetworkConnectedEvent: the handle check and xTaskCreate
MainStartActivation ==
    /\ MainAt("start_activation")
    /\ main_prog' = Tail(main_prog)
    /\ IF ActivationAlreadyRunning
       THEN UNCHANGED << act_pc, activation_task_handle_ >>
       ELSE /\ activation_task_handle_' = TRUE
            /\ act_pc' = "assets"
    /\ UNCHANGED << machine, sm_h, ext, event_group_, main_pc, bits, main_i,
                    tasks, pass_log, tt, queue, session, audio,
                    assets_version_checked_, others >>
    /\ UNCHANGED << hist, aux >>

\* UpgradeFirmware: if (upgrade_success), Reboot(); the audio service is
\* stopped and the level is PERFORMANCE since the calls before Ota::Upgrade
UpgradeSucceeded ==
    [audio_service_running |-> FALSE,
     power_save_level |-> kPowerSavePerformance,
     calls |-> << OpCloseIfOpen, OpReboot >>]

\* mutant: a failed upgrade goes on to Reboot() like a successful one
UpgradeFailedReboots == UpgradeSucceeded

\* UpgradeFirmware: if (!upgrade_success): audio_service_.Start(),
\* board.SetPowerSaveLevel(LOW_POWER), Alert, return false
UpgradeFailed ==
    [audio_service_running |-> TRUE,
     power_save_level |-> kPowerSaveLowPower,
     calls |-> << OpAlert >>]

\* board.SetPowerSaveLevel(level)
MainBoardCall ==
    /\ MainAt("power")
    /\ power_save_level' = Head(main_prog).arg
    /\ main_prog' = Tail(main_prog)
    /\ UNCHANGED << machine, sm_h, ext, event_group_, main_pc, bits, main_i,
                    tasks, pass_log, tt, queue, session, audio, activation,
                    others >>
    /\ UNCHANGED << hist, send_queue, next_packet, sleep_check,
                    last_error_message_, boot, audio_service_running >>

\* UpgradeFirmware from SetPowerSaveLevel(PERFORMANCE): audio_service_.Stop(),
\* Ota::Upgrade, then Reboot() or the failure branch
MainOta ==
    /\ MainAt("ota")
    /\ \E failed \in BOOLEAN :
          LET outcome == IF failed THEN UpgradeFailed ELSE UpgradeSucceeded
          IN  /\ failed => faults > 0
              /\ faults' = IF failed THEN faults - 1 ELSE faults
              /\ audio_service_running' = outcome.audio_service_running
              /\ power_save_level' = outcome.power_save_level
              /\ main_prog' = IF failed
                              THEN outcome.calls \o Tail(main_prog)
                              ELSE outcome.calls
    /\ UNCHANGED << machine, sm_h, ext, event_group_, main_pc, bits, main_i,
                    tasks, pass_log, tt, queue, session, audio, activation,
                    btn_pc, prod_pc, halted, stimuli >>
    /\ UNCHANGED << hist, send_queue, next_packet, sleep_check,
                    last_error_message_, boot >>

\* Reboot: esp_restart()
MainReboot ==
    /\ MainAt("reboot")
    /\ halted' = "reboot"
    /\ UNCHANGED << machine, sm_h, ext, event_group_, disp, tt, queue, session,
                    audio, activation, btn_pc, prod_pc, stimuli, faults >>
    /\ UNCHANGED << hist, aux >>

(***************************************************************************)
(* The activation task                                                     *)
(***************************************************************************)
ActAt(pc) ==
    /\ Running
    /\ act_pc = pc
    /\ tt["activation"].pc = "none"

\* what a step of the activation task that only moves on leaves unchanged
ActOnly ==
    UNCHANGED << machine, sm_h, ext, event_group_, disp, tt, queue, session,
                 audio, activation_task_handle_, assets_version_checked_,
                 btn_pc, prod_pc, halted, stimuli, faults >>

\* CheckAssetsVersion up to SetPowerSaveLevel(PERFORMANCE)
ActCheckAssetsVersion ==
    /\ ActAt("assets")
    /\ assets_version_checked_' = TRUE
    /\ \/ /\ act_pc' = "version"
          /\ UNCHANGED << tt, power_save_level >>
       \/ /\ ~assets_version_checked_
          /\ TTBegin("activation", kDeviceStateUpgrading)
          /\ power_save_level' = kPowerSavePerformance
          /\ act_pc' = "download"
    /\ UNCHANGED << machine, sm_h, ext, event_group_, disp, queue, session, audio,
                    activation_task_handle_, others >>
    /\ UNCHANGED << hist, send_queue, next_packet, sleep_check,
                    last_error_message_, boot, audio_service_running >>

\* CheckAssetsVersion: assets.Download and the failure branch
ActDownload ==
    /\ ActAt("download")
    /\ act_pc' = "version"
    /\ power_save_level' = kPowerSaveLowPower
    /\ \/ UNCHANGED << tt, faults >>
       \/ /\ faults > 0
          /\ faults' = faults - 1
          /\ TTBegin("activation", kDeviceStateActivating)
    /\ UNCHANGED << machine, sm_h, ext, event_group_, disp, queue, session, audio,
                    activation_task_handle_, assets_version_checked_, btn_pc,
                    prod_pc, halted, stimuli >>
    /\ UNCHANGED << hist, send_queue, next_packet, sleep_check,
                    last_error_message_, boot, audio_service_running >>

\* mutant: the cap on the attempts is never reached
RetriesExhaustedNever(retry_count) == FALSE

\* CheckNewVersion: if (retry_count >= MAX_RETRY) return
RetriesExhausted(retry_count) == retry_count >= MAX_RETRY

\* CheckNewVersion after a version check that has succeeded and an upgrade
\* that was not needed or has failed: MarkCurrentVersionValid, then `break`
\* (and the return) or the Activate loop
AfterVersionCheck ==
    IF has_activation_code THEN "activate" ELSE "protocol"

\* CheckNewVersion: one turn of `while (true)` up to the Activate loop:
\* ota_->CheckVersion(); when it fails the count, the return or the alert,
\* the wait of retry_delay seconds (which ends early when the device state
\* is found Idle) and retry_delay *= 2; when it succeeds the reset of the
\* locals and the call of UpgradeFirmware up to SetDeviceState
ActCheckNewVersion ==
    /\ ActAt("version")
    /\ \/ /\ faults > 0
          /\ faults' = faults - 1
          /\ LET retry_count == check_new_version.retry_count + 1
             IN  IF RetriesExhausted(retry_count)
                 THEN /\ check_new_version' =
                             [check_new_version EXCEPT
                                 !.retry_count = retry_count,
                                 !.attempts = @ + 1]
                      /\ act_pc' = "protocol"
                 ELSE /\ check_new_version' =
                             [check_new_version EXCEPT
                                 !.retry_count = retry_count,
                                 !.attempts = @ + 1,
                                 !.alerts = Append(@, check_new_version
                                                          .retry_delay),
                                 !.retry_delay = @ * 2]
                      /\ UNCHANGED act_pc
          /\ UNCHANGED tt
       \/ /\ check_new_version' = NoCheckNewVersion
          /\ UNCHANGED faults
          /\ \/ /\ TTBegin("activation", kDeviceStateUpgrading)
                /\ act_pc' = "upgrade"
             \/ /\ act_pc' = AfterVersionCheck
                /\ UNCHANGED tt
    /\ UNCHANGED << machine, sm_h, ext, event_group_, disp, queue, session, audio,
                    activation_task_handle_, assets_version_checked_, btn_pc,
                    prod_pc, halted, stimuli >>
    /\ UNCHANGED << hist, send_queue, next_packet, sleep_check,
                    last_error_message_, has_activation_code, power >>

\* UpgradeFirmware called by CheckNewVersion, from SetPowerSaveLevel to the
\* end: Ota::Upgrade, then Reboot() or the failure branch and `return false`
ActUpgradeFirmware ==
    /\ ActAt("upgrade")
    /\ \E failed \in BOOLEAN :
          LET outcome == IF failed THEN UpgradeFailed ELSE UpgradeSucceeded
          IN  /\ failed => faults > 0
              /\ faults' = IF failed THEN faults - 1 ELSE faults
              /\ audio_service_running' = outcome.audio_service_running
              /\ power_save_level' = outcome.power_save_level
              /\ IF \E k \in 1 .. Len(outcome.calls) :
                        outcome.calls[k] = OpReboot
                 THEN /\ halted' = "reboot"
                      /\ UNCHANGED act_pc
                 ELSE /\ act_pc' = AfterVersionCheck
                      /\ UNCHANGED halted
    /\ UNCHANGED << machine, sm_h, ext, event_group_, disp, tt, queue, session,
                    audio, activation_task_handle_, assets_version_checked_,
                    btn_pc, prod_pc, stimuli >>
    /\ UNCHANGED << hist, send_queue, next_packet, sleep_check,
                    last_error_message_, boot >>

\* CheckNewVersion: one turn of `for (int i = 0; i < 10; ++i)` around
\* ota_->Activate(); after the loop the outer `while (true)` goes round
ActActivate ==
    /\ ActAt("activate")
    /\ \/ /\ has_activation_code' = FALSE
          /\ act_pc' = "version"
          /\ UNCHANGED check_new_version
       \/ /\ UNCHANGED has_activation_code
          /\ IF current_state_ = kDeviceStateIdle
                \/ check_new_version.i + 1 >= ActivateRounds
             THEN /\ act_pc' = "version"
                  /\ UNCHANGED check_new_version
             ELSE /\ check_new_version' =
                         [check_new_version EXCEPT !.i = @ + 1]
                  /\ UNCHANGED act_pc
    /\ UNCHANGED << machine, sm_h, ext, event_group_, disp, tt, queue, session,
                    audio, activation_task_handle_, assets_version_checked_,
                    others >>
    /\ UNCHANGED << hist, send_queue, next_packet, sleep_check,
                    last_error_message_, power >>

ActInitializeProtocol ==
    /\ ActAt("protocol")
    /\ protocol_' = TRUE
    /\ act_pc' = "done"
    /\ check_new_version' = NoCheckNewVersion
    /\ UNCHANGED << machine, sm_h, ext, event_group_, disp, tt, queue,
                    channel_open, listening_mode_, aec_mode_, audio,
                    activation_task_handle_, assets_version_checked_,
                    others >>
    /\ UNCHANGED << hist, send_queue, next_packet, sleep_check,
                    last_error_message_, has_activation_code, power >>

\* ActivationTask: xEventGroupSetBits(event_group_, MAIN_EVENT_ACTIVATION_DONE)
ActDone ==
    /\ ActAt("done")
    /\ event_group_' = event_group_ \cup { MAIN_EVENT_ACTIVATION_DONE }
    /\ act_pc' = "exit"
    /\ UNCHANGED << machine, sm_h, ext, disp, tt, queue, session, audio,
                    activation_task_handle_, assets_version_checked_,
                    others >>
    /\ UNCHANGED << hist, aux >>

\* the task function: app->activation_task_handle_ = nullptr
ActExit ==
    /\ ActAt("exit")
    /\ activation_task_handle_' = FALSE
    /\ act_pc' = "none"
    /\ UNCHANGED << machine, sm_h, ext, event_group_, disp, tt, queue, session,
                    audio, assets_version_checked_, others >>
    /\ UNCHANGED << hist, aux >>

(***************************************************************************)
(* The other tasks: callbacks that raise flags, the button, the tasks that *)
(* call Schedule                                                           *)
(***************************************************************************)
\* flags raised by the callbacks registered in Application and Initialize
CallbackFlags ==
    { MAIN_EVENT_CLOCK_TICK, MAIN_EVENT_SEND_AUDIO,
      MAIN_EVENT_WAKE_WORD_DETECTED, MAIN_EVENT_VAD_CHANGE,
      MAIN_EVENT_NETWORK_CONNECTED, MAIN_EVENT_NETWORK_DISCONNECTED }

\* closures passed to Schedule by tasks other than the dispatcher
ProducerKinds == { "closed", "tts_start", "tts_stop", "tool_call" }

\* a callback: xEventGroupSetBits(event_group_, flag)
EnvSetBits(flag) ==
    /\ Running
    /\ main_pc # "init"
    /\ stimuli > 0
    /\ flag \notin event_group_
    /\ stimuli' = stimuli - 1
    /\ event_group_' = event_group_ \cup { flag }
    /\ UNCHANGED << machine, sm_h, ext, disp, tt, queue, session, audio,
                    activation, btn_pc, prod_pc, halted, faults >>
    /\ UNCHANGED << hist, aux >>

\* the callback given to protocol_->OnNetworkError, on the protocol's task
OnNetworkError(message) ==
    /\ Running
    /\ protocol_
    /\ stimuli > 0
    /\ stimuli' = stimuli - 1
    /\ last_error_message_' = message
    /\ event_group_' = event_group_ \cup { MAIN_EVENT_ERROR }
    /\ UNCHANGED << machine, sm_h, ext, disp, tt, queue, session, audio,
                    activation, btn_pc, prod_pc, halted, faults, hist,
                    send_queue, next_packet, sleep_check, boot, power >>

BtnAt(pc) ==
    /\ Running
    /\ btn_pc = pc
    /\ tt["button"].pc = "none"

\* OnClick: ToggleChatState(); OnLongPress: StartListening()
BtnSetBits(flag) ==
    /\ BtnAt("idle")
    /\ stimuli > 0
    /\ flag \notin event_group_
    /\ stimuli' = stimuli - 1
    /\ event_group_' = event_group_ \cup { flag }
    /\ UNCHANGED << machine, sm_h, ext, disp, tt, queue, session, audio,
                    activation, btn_pc, prod_pc, halted, faults >>
    /\ UNCHANGED << hist, aux >>

\* OnPressUp: StopListening()
BtnPressUp ==
    /\ BtnAt("idle")
    /\ stimuli > 0
    /\ stimuli' = stimuli - 1
    /\ event_group_' = event_group_ \cup { MAIN_EVENT_STOP_LISTENING }
    /\ btn_pc' = "set_state"
    /\ UNCHANGED << machine, sm_h, ext, disp, tt, queue, session, audio,
                    activation, prod_pc, halted, faults >>
    /\ UNCHANGED << hist, aux >>

\* OnPressUp: SetDeviceState(kDeviceStateIdle)
BtnSetDeviceState ==
    /\ BtnAt("set_state")
    /\ TTBegin("button", kDeviceStateIdle)
    /\ btn_pc' = "idle"
    /\ UNCHANGED << machine, sm_h, ext, event_group_, disp, queue, session, audio,
                    activation, prod_pc, halted, stimuli, faults >>
    /\ UNCHANGED << hist, aux >>

\* the board enters the WiFi configuration mode (NetworkEvent
\* WifiConfigModeEnter, "handled by WifiBoard internally"): a task of the
\* board calls SetDeviceState(kDeviceStateWifiConfiguring)
WifiStartConfigMode ==
    /\ Running
    /\ main_pc # "init"
    /\ tt["wifi"].pc = "none"
    /\ stimuli > 0
    /\ stimuli' = stimuli - 1
    /\ TTBegin("wifi", kDeviceStateWifiConfiguring)
    /\ UNCHANGED << machine, sm_h, ext, event_group_, disp, queue, session, audio,
                    activation, btn_pc, prod_pc, halted, faults >>
    /\ UNCHANGED << hist, aux >>

\* Schedule on another task: lock, push_back, unlock; the protocol reports
\* through OnAudioChannelClosed a channel that the other side has closed
ProdPush(kind) ==
    /\ Running
    /\ protocol_
    /\ prod_pc = "idle"
    /\ stimuli > 0
    /\ kind = "closed" => channel_open
    /\ stimuli' = stimuli - 1
    /\ main_tasks_' = Pushed(kind)
    /\ channel_open' = IF kind = "closed" THEN FALSE ELSE channel_open
    /\ power_save_level' = IF kind = "closed" THEN kPowerSaveLowPower
                           ELSE power_save_level
    /\ prod_pc' = "set_bits"
    /\ UNCHANGED << machine, sm_h, ext, event_group_, disp, tt, ran, protocol_,
                    listening_mode_, aec_mode_, audio, activation, btn_pc,
                    halted, faults >>
    /\ UNCHANGED << hist, send_queue, next_packet, sleep_check,
                    last_error_message_, boot, audio_service_running >>

\* mutant: Schedule returns after the push, without raising the flag
ProdSetBitsForgotten ==
    /\ Running
    /\ prod_pc = "set_bits"
    /\ prod_pc' = "idle"
    /\ UNCHANGED << machine, sm_h, ext, event_group_, disp, tt, queue, session,
                    audio, activation, btn_pc, halted, stimuli, faults,
                    hist, aux >>

\* Schedule on another task: xEventGroupSetBits(event_group_, MAIN_EVENT_SCHEDULE)
ProdSetBits ==
    /\ Running
    /\ prod_pc = "set_bits"
    /\ event_group_' = event_group_ \cup { MAIN_EVENT_SCHEDULE }
    /\ prod_pc' = "idle"
    /\ UNCHANGED << machine, sm_h, ext, disp, tt, queue, session, audio,
                    activation, btn_pc, halted, stimuli, faults >>
    /\ UNCHANGED << hist, aux >>

(***************************************************************************)
(* The audio service and the power-save timer                              *)
(***************************************************************************)
\* packets the encoder produces
MaxPackets == 3

\* the encoder task: a packet enters the send queue and the service calls
\* on_send_queue_available, which raises MAIN_EVENT_SEND_AUDIO
AudioEncode ==
    /\ Running
    /\ main_pc # "init"
    /\ stimuli > 0
    /\ next_packet <= MaxPackets
    /\ stimuli' = stimuli - 1
    /\ send_queue' = Append(send_queue, next_packet)
    /\ next_packet' = next_packet + 1
    /\ event_group_' = event_group_ \cup { MAIN_EVENT_SEND_AUDIO }
    /\ UNCHANGED << machine, sm_h, ext, disp, tt, queue, session, audio,
                    activation, btn_pc, prod_pc, halted, faults, hist,
                    sleep_check, last_error_message_, boot, power >>

\* calls of CanEnterSleepMode by the power-save timer
MaxSleepChecks == 1

\* mutant: the test of the audio channel is missing
CanEnterSleepModeIgnoresChannel(audio_is_idle) ==
    IF current_state_ # kDeviceStateIdle THEN FALSE
    ELSE IF ~audio_is_idle THEN FALSE
    ELSE TRUE

\* Application::CanEnterSleepMode, audio_is_idle being audio_service_.IsIdle()
CanEnterSleepMode(audio_is_idle) ==
    IF current_state_ # kDeviceStateIdle THEN FALSE
    ELSE IF protocol_ /\ channel_open THEN FALSE
    ELSE IF ~audio_is_idle THEN FALSE
    ELSE TRUE

\* the power-save timer calls CanEnterSleepMode
SleepTimerCheck ==
    /\ Running
    /\ main_pc # "init"
    /\ sleep_check.pc = "idle"
    /\ sleep_check.n < MaxSleepChecks
    /\ stimuli > 0
    /\ stimuli' = stimuli - 1
    /\ \E audio_is_idle \in BOOLEAN :
          sleep_check' =
              [pc |-> "returned", n |-> sleep_check.n + 1,
               state |-> current_state_, protocol |-> protocol_,
               opened |-> channel_open, audio_idle |-> audio_is_idle,
               result |-> CanEnterSleepMode(audio_is_idle)]
    /\ UNCHANGED << machine, sm_h, ext, event_group_, disp, tt, queue, session,
                    audio, activation, btn_pc, prod_pc, halted, faults, hist,
                    send_queue, next_packet, last_error_message_, boot,
                    power >>

\* the timer callback uses the result and returns
SleepTimerReturn ==
    /\ Running
    /\ sleep_check.pc = "returned"
    /\ sleep_check' = NoSleepCheck(sleep_check.n)
    /\ UNCHANGED << machine, sm_h, ext, event_group_, disp, tt, queue, session,
                    audio, activation, others, hist, send_queue,
                    next_packet, last_error_message_, boot, power >>

AppNext ==
    \/ Initialize
    \/ Wake
    \/ HandleErrorEvent
    \/ HandleNetworkConnectedEvent
    \/ HandleNetworkDisconnectedEvent
    \/ HandleActivationDoneEvent
    \/ HandleStateChangedEvent
    \/ HandleToggleChatEvent
    \/ HandleStartListeningEvent
    \/ HandleStopListeningEvent
    \/ HandleSendAudio
    \/ HandleWakeWordDetectedEvent
    \/ HandleVadChange
    \/ HandleSchedule
    \/ HandleClockTick
    \/ PassEnd
    \/ RunTask
    \/ MainSetDeviceState
    \/ MainOpenAudioChannel
    \/ MainSetListeningMode
    \/ MainCloseAudioChannel
    \/ MainCall
    \/ MainSendAudio
    \/ MainSchedule
    \/ MainStartActivation
    \/ MainBoardCall
    \/ MainOta
    \/ MainReboot
    \/ \E th \in Threads : TTStore(th)
    \/ \E th \in Threads : TTNotify(th)
    \/ ActCheckAssetsVersion
    \/ ActDownload
    \/ ActCheckNewVersion
    \/ ActUpgradeFirmware
    \/ ActInitializeProtocol
    \/ ActDone
    \/ ActExit
    \/ \E flag \in CallbackFlags : EnvSetBits(flag)
    \/ \E message \in ErrorMessages : OnNetworkError(message)
    \/ \E flag \in { MAIN_EVENT_TOGGLE_CHAT, MAIN_EVENT_START_LISTENING } :
          BtnSetBits(flag)
    \/ BtnPressUp
    \/ BtnSetDeviceState
    \/ \E kind \in ProducerKinds : ProdPush(kind)
    \/ ProdSetBits

SpecApp == AppInit /\ [][AppNext]_vars

\* external events in the specification with the audio service and the
\* timer, the packets of the encoder and the calls of the timer included
MaxDeviceStimuli == 3

\* OpenAudioChannel, the downloads and the version check do not fail in
\* this specification; the result of SendAudio is free
DeviceInit ==
    /\ AppStart
    /\ stimuli = IF main_pc = "init" THEN MaxBootStimuli
                 ELSE MaxDeviceStimuli
    /\ faults = 0

DeviceNext ==
    \/ AppNext
    \/ AudioEncode
    \/ SleepTimerCheck
    \/ SleepTimerReturn

\* the application together with the encoder and the power-save timer
SpecDevice == DeviceInit /\ [][DeviceNext]_vars

\* the steps of the dispatcher, the task that runs Application::Run
DispatcherNext ==
    \/ Initialize
    \/ Wake
    \/ HandleErrorEvent
    \/ HandleNetworkConnectedEvent
    \/ HandleNetworkDisconnectedEvent
    \/ HandleActivationDoneEvent
    \/ HandleStateChangedEvent
    \/ HandleToggleChatEvent
    \/ HandleStartListeningEvent
    \/ HandleStopListeningEvent
    \/ HandleSendAudio
    \/ HandleWakeWordDetectedEvent
    \/ HandleVadChange
    \/ HandleSchedule
    \/ HandleClockTick
    \/ PassEnd
    \/ RunTask
    \/ MainSetDeviceState
    \/ MainOpenAudioChannel
    \/ MainSetListeningMode
    \/ MainCloseAudioChannel
    \/ MainCall
    \/ MainSendAudio
    \/ MainSchedule
    \/ MainStartActivation
    \/ MainBoardCall
    \/ MainOta
    \/ MainReboot
    \/ TTStore("main")
    \/ TTNotify("main")

\* external events in the specification of the activated device
MaxSessionStimuli == 3

\* the device at rest after a completed activation; OpenAudioChannel and the
\* firmware upgrade do not fail in this specification
SessionInit ==
    /\ InitSteady
    /\ aec_mode_ \in AecModes
    /\ has_activation_code = FALSE
    /\ SMQuiet
    /\ stimuli = MaxSessionStimuli
    /\ faults = 0

\* the steps of the tasks of the activated device: the activation task has
\* exited, and Initialize has returned
SessionNext ==
    \/ Wake
    \/ HandleErrorEvent
    \/ HandleNetworkConnectedEvent
    \/ HandleNetworkDisconnectedEvent
    \/ HandleStateChangedEvent
    \/ HandleToggleChatEvent
    \/ HandleStartListeningEvent
    \/ HandleStopListeningEvent
    \/ HandleSendAudio
    \/ HandleWakeWordDetectedEvent
    \/ HandleVadChange
    \/ HandleSchedule
    \/ HandleClockTick
    \/ PassEnd
    \/ RunTask
    \/ MainSetDeviceState
    \/ MainOpenAudioChannel
    \/ MainSetListeningMode
    \/ MainCloseAudioChannel
    \/ MainCall
    \/ MainSendAudio
    \/ MainSchedule
    \/ MainOta
    \/ MainReboot
    \/ \E th \in { "main", "button" } : TTStore(th)
    \/ \E th \in { "main", "button" } : TTNotify(th)
    \/ \E flag \in CallbackFlags : EnvSetBits(flag)
    \/ \E message \in ErrorMessages : OnNetworkError(message)
    \/ \E flag \in { MAIN_EVENT_TOGGLE_CHAT, MAIN_EVENT_START_LISTENING } :
          BtnSetBits(flag)
    \/ BtnPressUp
    \/ BtnSetDeviceState
    \/ \E kind \in ProducerKinds : ProdPush(kind)
    \/ ProdSetBits

\* the activated device under fair scheduling
FairSpecSession ==
    /\ SessionInit
    /\ [][SessionNext]_vars
    /\ WF_vars(DispatcherNext)
    /\ WF_vars(ProdSetBits)

\* the scheduler runs every task that is ready: the dispatcher goes on while
\* it has a step to take, and a task inside Schedule reaches its
\* xEventGroupSetBits
FairSpecApp ==
    /\ AppLiveInit
    /\ [][AppNext]_vars
    /\ WF_vars(DispatcherNext)
    /\ WF_vars(ProdSetBits)

(***************************************************************************)
(* The start of the device: Initialize, the network coming up, and the     *)
(* activation task up to its exit.  The server may ask for an activation:  *)
(* has_activation_code stays set until an Activate call succeeds.          *)
(***************************************************************************)
\* failures of CheckVersion, of the downloads and of the upgrade
MaxBootFaults == 10

BootInit ==
    /\ InitBoot
    /\ aec_mode_ \in AecModes
    /\ has_activation_code \in BOOLEAN
    /\ SMQuiet
    /\ stimuli = MaxBootStimuli
    /\ faults = MaxBootFaults

\* the steps of the task that xTaskCreate starts with ActivationTask
ActivationNext ==
    \/ ActCheckAssetsVersion
    \/ ActDownload
    \/ ActCheckNewVersion
    \/ ActUpgradeFirmware
    \/ ActActivate
    \/ ActInitializeProtocol
    \/ ActDone
    \/ ActExit
    \/ TTStore("activation")
    \/ TTNotify("activation")

BootNext ==
    \/ Initialize
    \/ Wake
    \/ HandleNetworkConnectedEvent
    \/ HandleActivationDoneEvent
    \/ HandleStateChangedEvent
    \/ PassEnd
    \/ MainSetDeviceState
    \/ MainStartActivation
    \/ MainBoardCall
    \/ TTStore("main")
    \/ TTNotify("main")
    \/ ActivationNext
    \/ EnvSetBits(MAIN_EVENT_NETWORK_CONNECTED)
    \/ BtnPressUp
    \/ BtnSetDeviceState
    \/ TTStore("button")
    \/ TTNotify("button")

SpecBoot == BootInit /\ [][BootNext]_vars

\* the start with one failure at most
BootLiveInit ==
    /\ InitBoot
    /\ aec_mode_ \in AecModes
    /\ has_activation_code \in BOOLEAN
    /\ SMQuiet
    /\ stimuli = MaxBootStimuli
    /\ faults = MaxFaults

\* the scheduler runs every task that is ready: the activation task blocks
\* only in delays and in requests that time out
FairSpecBoot ==
    /\ BootLiveInit
    /\ [][BootNext]_vars
    /\ WF_vars(DispatcherNext)
    /\ WF_vars(ActivationNext)

\* the steps of the task that runs the board's OnPressUp after the flag
ButtonNext ==
    \/ BtnSetDeviceState
    \/ TTStore("button")
    \/ TTNotify("button")

\* FairSpecApp, and every task that is inside SetDeviceState or on its way
\* to it is scheduled too
FairSpecTasks ==
    /\ AppLiveInit
    /\ [][AppNext]_vars
    /\ WF_vars(DispatcherNext)
    /\ WF_vars(ProdSetBits)
    /\ WF_vars(ActivationNext)
    /\ WF_vars(ButtonNext)

\* external events while the network comes, goes and comes again
MaxNetworkStimuli == 3

NetworkInit ==
    /\ InitBoot
    /\ aec_mode_ = kAecOff
    /\ has_activation_code \in BOOLEAN
    /\ SMQuiet
    /\ stimuli = MaxNetworkStimuli
    /\ faults = MaxFaults

\* the start of the device on a board that may enter the WiFi configuration
\* mode
NetworkNext ==
    \/ BootNext
    \/ HandleToggleChatEvent
    \/ BtnSetBits(MAIN_EVENT_TOGGLE_CHAT)
    \/ WifiStartConfigMode
    \/ TTStore("wifi")
    \/ TTNotify("wifi")

SpecNetwork == NetworkInit /\ [][NetworkNext]_vars

(***************************************************************************)
(* McpServer: tools/call                                                   *)
(***************************************************************************)
kPropertyTypeBoolean == "boolean"
kPropertyTypeInteger == "integer"
kPropertyTypeString == "string"

\* Property(name, type), Property(name, type, min, max),
\* Property(name, type, default, min, max)
Property(name, type, has_default, min_value, max_value) ==
    [name |-> name, type |-> type, has_default_value |-> has_default,
     min_value |-> min_value, max_value |-> max_value]

\* tools_: three of the tools AddCommonTools and AddUserOnlyTools add
tools_ ==
    << [name |-> "self.get_device_status", properties |-> << >>],
       [name |-> "self.audio_speaker.set_volume",
        properties |->
            << Property("volume", kPropertyTypeInteger, FALSE, 0, 100) >>],
       [name |-> "self.screen.snapshot",
        properties |->
            << Property("url", kPropertyTypeString, FALSE, 0, 0),
               Property("quality", kPropertyTypeInteger, TRUE, 1, 100) >>] >>

\* the values of a member of the "arguments" object: none, a boolean, a
\* number, a string
JNull == [t |-> "null", v |-> 0]
JBool == [t |-> "bool", v |-> 1]
JNumber(n) == [t |-> "number", v |-> n]
JString == [t |-> "string", v |-> 0]
JsonValues == { JNull, JBool, JNumber(50), JNumber(200), JString }

\* the "arguments" member of params: absent, not an object, or an object
NoArguments == [t |-> "null", members |-> << >>]
TextArguments == [t |-> "string", members |-> << >>]
ObjectArguments(members) == [t |-> "object", members |-> members]

\* std::find_if(tools_.begin(), tools_.end(), ...): 0 is tools_.end()
FindTool(tool_name) ==
    IF \E i \in 1 .. Len(tools_) : tools_[i].name = tool_name
    THEN CHOOSE i \in 1 .. Len(tools_) :
             /\ tools_[i].name = tool_name
             /\ \A j \in 1 .. i - 1 : tools_[j].name # tool_name
    ELSE 0

\* cJSON_GetObjectItem(tool_arguments, argument.name().c_str())
GetObjectItem(tool_arguments, name) ==
    IF tool_arguments.t = "object" /\ name \in DOMAIN tool_arguments.members
    THEN tool_arguments.members[name]
    ELSE JNull

\* DoToolCall: the three branches that set `found`
Found(argument, tool_arguments) ==
    LET value == GetObjectItem(tool_arguments, argument.name)
    IN  /\ tool_arguments.t = "object"
        /\ \/ argument.type = kPropertyTypeBoolean /\ value.t = "bool"
           \/ argument.type = kPropertyTypeInteger /\ value.t = "number"
           \/ argument.type = kPropertyTypeString /\ value.t = "string"

\* Property::set_value<int> refuses a value outside the range the property
\* was declared with, by an exception
SetValueThrows(argument, tool_arguments) ==
    LET value == GetObjectItem(tool_arguments, argument.name)
    IN  /\ Found(argument, tool_arguments)
        /\ argument.type = kPropertyTypeInteger
        /\ value.v < argument.min_value \/ value.v > argument.max_value

\* DoToolCall: the loop over the arguments from the i-th on: "bound", or the
\* reason for which it returns early
RECURSIVE BindArguments(_, _, _)
BindArguments(arguments, tool_arguments, i) ==
    IF i > Len(arguments) THEN "bound"
    ELSE IF SetValueThrows(arguments[i], tool_arguments) THEN "exception"
    ELSE IF /\ ~arguments[i].has_default_value
            /\ ~Found(arguments[i], tool_arguments)
         THEN "missing"
    ELSE BindArguments(arguments, tool_arguments, i + 1)

\* ParseMessage, method "tools/call" with params an object and a name, then
\* DoToolCall up to its call of Schedule: "schedule", or the error replied
ToolsCall(tool_name, tool_arguments) ==
    IF tool_arguments.t \notin { "null", "object" } THEN "Invalid arguments"
    ELSE IF FindTool(tool_name) = 0 THEN "Unknown tool"
    ELSE LET outcome == BindArguments(tools_[FindTool(tool_name)].properties,
                                      tool_arguments, 1)
         IN  CASE outcome = "bound" -> "schedule"
               [] outcome = "missing" -> "Missing valid argument"
               [] OTHER -> "exception"

\* requests the server receives
MaxMcpRequests == 2

\* a call of ReplyResult (kind "result") or ReplyError (kind "error")
Reply(id, kind) == [id |-> id, kind |-> kind]

\* OnIncomingJson, type "mcp": ParseMessage and DoToolCall on the protocol's
\* task
McpToolsCall(tool_name, tool_arguments) ==
    /\ ~mcp_uncaught
    /\ Len(mcp_requests) < MaxMcpRequests
    /\ LET id == Len(mcp_requests) + 1
           outcome == ToolsCall(tool_name, tool_arguments)
       IN  /\ mcp_requests' =
                  Append(mcp_requests,
                         [id |-> id, name |-> tool_name,
                          arguments |-> tool_arguments])
           /\ IF outcome = "schedule"
              THEN /\ mcp_tasks' =
                          Append(mcp_tasks,
                                 [id |-> id, tool |-> FindTool(tool_name)])
                   /\ UNCHANGED mcp_replies
              ELSE /\ mcp_replies' = Append(mcp_replies, Reply(id, "error"))
                   /\ UNCHANGED mcp_tasks
    /\ UNCHANGED << mcp_calls, mcp_uncaught >>
    /\ UNCHANGED << machine, sm_h, event_group_, disp, tt, queue, session,
                    audio, activation, others, hist, aux, login, signalr >>

\* mutant: the closure has no try block
ToolCallOutcomeNoCatch(thrown) ==
    IF thrown THEN "uncaught" ELSE "result"

\* the closure of DoToolCall: try { ReplyResult(id, Call(arguments)) }
\* catch (const std::exception& e) { ReplyError(id, e.what()) }
ToolCallOutcome(thrown) ==
    IF thrown THEN "error" ELSE "result"

\* Run: task(), for a closure of DoToolCall; the tool returns or throws
McpRunToolCall ==
    /\ ~mcp_uncaught
    /\ mcp_tasks # << >>
    /\ \E thrown \in BOOLEAN :
          LET task == Head(mcp_tasks)
              outcome == ToolCallOutcome(thrown)
          IN  /\ mcp_calls' =
                     Append(mcp_calls,
                            [id |-> task.id, tool |-> task.tool,
                             th |-> "main", thrown |-> thrown])
              /\ mcp_uncaught' = (outcome = "uncaught")
              /\ mcp_replies' =
                     IF outcome = "uncaught" THEN mcp_replies
                     ELSE Append(mcp_replies, Reply(task.id, outcome))
    /\ mcp_tasks' = Tail(mcp_tasks)
    /\ UNCHANGED mcp_requests
    /\ UNCHANGED << machine, sm_h, event_group_, disp, tt, queue, session,
                    audio, activation, others, hist, aux, login, signalr >>

\* the names a request may carry: those of tools_, and one of no tool
ToolNames ==
    { tools_[i].name : i \in 1 .. Len(tools_) } \cup { "self.no_such_tool" }

\* the names of the properties of the tool of this name
PropertyNames(tool_name) ==
    IF FindTool(tool_name) = 0 THEN {}
    ELSE LET ps == tools_[FindTool(tool_name)].properties
         IN  { ps[i].name : i \in 1 .. Len(ps) }

\* the "arguments" a request for this tool may carry
ArgumentsFor(tool_name) ==
    { NoArguments, TextArguments } \cup
    { ObjectArguments(m) : m \in [PropertyNames(tool_name) -> JsonValues] }

\* the device at rest, nothing but the MCP server moving
CoreAtRest ==
    /\ InitSteady
    /\ aec_mode_ = kAecOff
    /\ has_activation_code = FALSE
    /\ SMQuiet
    /\ stimuli = 0
    /\ faults = 0

McpNext ==
    \/ \E tool_name \in ToolNames :
          \E tool_arguments \in ArgumentsFor(tool_name) :
             McpToolsCall(tool_name, tool_arguments)
    \/ McpRunToolCall

SpecMcp == CoreAtRest /\ [][McpNext]_vars

\* the dispatcher runs: a closure given to Schedule is run in the end
FairSpecMcp == SpecMcp /\ WF_vars(McpRunToolCall)

(***************************************************************************)
(* The keycloak tool: the login task and its cancellation                  *)
(***************************************************************************)
\* calls of the keycloak tool with action "login" or "cancel"
MaxLoginRequests == 3
\* max_attempts = expires_in / interval, both from the server's response
MaxLoginAttempts == 2
\* interval * 10, the number of 100 ms slices of one wait
MaxLoginSlices == 2

\* what the steps of the keycloak tool and of its task leave unchanged
LoginOnly ==
    UNCHANGED << machine, sm_h, event_group_, disp, tt, queue, session,
                 audio, activation, others, hist, aux, mcp, signalr >>

\* a step of the polling loop is counted when the cancel flag is already set
AfterCancel(n) == IF s_login_task_cancelled THEN n + 1 ELSE n

\* the keycloak tool, action "login", on the dispatcher: the check of
\* s_login_task_running, the two flags, xTaskCreateStatic
LoginTool ==
    /\ login_hist.requests < MaxLoginRequests
    /\ \E is_authenticated \in BOOLEAN, created \in BOOLEAN :
          IF is_authenticated \/ s_login_task_running
          THEN /\ login_hist' = [login_hist EXCEPT !.requests = @ + 1]
               /\ UNCHANGED << s_login_task_running, s_login_task_cancelled,
                               login_pc, login_loop >>
          ELSE /\ s_login_task_cancelled' = FALSE
               /\ s_login_task_running' = created
               /\ login_pc' = IF created THEN "device_code" ELSE login_pc
               /\ login_loop' = IF created THEN NoLoginLoop ELSE login_loop
               /\ login_hist' =
                      [login_hist EXCEPT
                          !.requests = @ + 1,
                          !.created = IF created THEN @ + 1 ELSE @,
                          !.polls = IF created THEN 0 ELSE @,
                          !.delays = IF created THEN 0 ELSE @]
    /\ LoginOnly

\* the keycloak tool, action "cancel", on the dispatcher
CancelTool ==
    /\ login_hist.requests < MaxLoginRequests
    /\ login_hist' = [login_hist EXCEPT !.requests = @ + 1]
    /\ s_login_task_cancelled' =
           IF ~s_login_task_running THEN s_login_task_cancelled ELSE TRUE
    /\ UNCHANGED << s_login_task_running, login_pc, login_loop >>
    /\ LoginOnly

\* the task: the request of the device code; a failure clears the running
\* flag, schedules the alert and deletes the task
LoginDeviceCode ==
    /\ login_pc = "device_code"
    /\ \/ /\ s_login_task_running' = FALSE
          /\ login_pc' = "none"
          /\ login_hist' = [login_hist EXCEPT !.exiting = @ + 1]
          /\ UNCHANGED login_loop
       \/ \E max_attempts \in 1 .. MaxLoginAttempts :
             /\ login_loop' = [NoLoginLoop EXCEPT
                                  !.max_attempts = max_attempts]
             /\ login_pc' = "top"
             /\ UNCHANGED << s_login_task_running, login_hist >>
    /\ UNCHANGED s_login_task_cancelled
    /\ LoginOnly

\* for (int i = 0; i < max_attempts; i++): the condition, the check of the
\* cancel flag, if (i > 0)
LoginLoopTop ==
    /\ login_pc = "top"
    /\ IF login_loop.i >= login_loop.max_attempts
       THEN login_pc' = "after" /\ UNCHANGED login_loop
       ELSE IF s_login_task_cancelled
       THEN /\ login_loop' = [login_loop EXCEPT !.cancelled = TRUE]
            /\ login_pc' = "after"
       ELSE IF login_loop.i > 0
       THEN /\ login_loop' = [login_loop EXCEPT !.j = 0]
            /\ login_pc' = "slice"
       ELSE login_pc' = "poll" /\ UNCHANGED login_loop
    /\ UNCHANGED << s_login_task_running, s_login_task_cancelled,
                    login_hist >>
    /\ LoginOnly

\* mutant: the wait does not look at the cancel flag
CancelledDuringWaitNever == FALSE

\* the wait: if (s_login_task_cancelled)
CancelledDuringWait == s_login_task_cancelled

\* for (int j = 0; j < interval * 10; j++): the condition and the check of
\* the cancel flag
LoginSlice ==
    /\ login_pc = "slice"
    /\ IF login_loop.j >= MaxLoginSlices
       THEN login_pc' = "poll" /\ UNCHANGED login_loop
       ELSE IF CancelledDuringWait
       THEN /\ login_loop' = [login_loop EXCEPT !.cancelled = TRUE]
            /\ login_pc' = "after"
       ELSE login_pc' = "delay" /\ UNCHANGED login_loop
    /\ UNCHANGED << s_login_task_running, s_login_task_cancelled,
                    login_hist >>
    /\ LoginOnly

\* vTaskDelay(pdMS_TO_TICKS(100)); j++
LoginDelay ==
    /\ login_pc = "delay"
    /\ login_loop' = [login_loop EXCEPT !.j = @ + 1]
    /\ login_hist' = [login_hist EXCEPT !.delays = AfterCancel(@)]
    /\ login_pc' = "slice"
    /\ UNCHANGED << s_login_task_running, s_login_task_cancelled >>
    /\ LoginOnly

\* what one token request leads to: the token, "authorization_pending" or
\* "slow_down", another error of status 400, or no usable answer
PollResults == { "token", "pending", "refused", "none" }

\* one token request and the branch the loop takes on its answer
LoginPoll ==
    /\ login_pc = "poll"
    /\ login_hist' = [login_hist EXCEPT !.polls = AfterCancel(@)]
    /\ \E result \in PollResults :
          CASE result = "token" ->
                   /\ login_loop' = [login_loop EXCEPT !.success = TRUE]
                   /\ login_pc' = "after"
            [] result = "refused" ->
                   /\ login_pc' = "after"
                   /\ UNCHANGED login_loop
            [] OTHER ->
                   /\ login_loop' = [login_loop EXCEPT !.i = @ + 1]
                   /\ login_pc' = "top"
    /\ UNCHANGED << s_login_task_running, s_login_task_cancelled >>
    /\ LoginOnly

\* after the loop: the closure given to Schedule, delete ctx,
\* s_login_task_running = false, s_login_task_handle = nullptr
LoginFinish ==
    /\ login_pc = "after"
    /\ s_login_task_running' = FALSE
    /\ login_pc' = "none"
    /\ login_hist' = [login_hist EXCEPT !.exiting = @ + 1]
    /\ UNCHANGED << s_login_task_cancelled, login_loop >>
    /\ LoginOnly

\* vTaskDelete(nullptr), the last statement of a task that has cleared the
\* running flag
LoginTaskDelete ==
    /\ login_hist.exiting > 0
    /\ login_hist' = [login_hist EXCEPT !.exiting = @ - 1]
    /\ UNCHANGED << s_login_task_running, s_login_task_cancelled, login_pc,
                    login_loop >>
    /\ LoginOnly

\* the steps of the login task
LoginTaskNext ==
    \/ LoginDeviceCode
    \/ LoginLoopTop
    \/ LoginSlice
    \/ LoginDelay
    \/ LoginPoll
    \/ LoginFinish
    \/ LoginTaskDelete

LoginNext ==
    \/ LoginTool
    \/ CancelTool
    \/ LoginTaskNext

SpecLogin == CoreAtRest /\ [][LoginNext]_vars

\* the scheduler runs the login task: it blocks only in vTaskDelay and in
\* requests with a timeout of 5 s
FairSpecLogin == SpecLogin /\ WF_vars(LoginTaskNext)

(***************************************************************************)
(* SignalRClient: RequestReconnect and the reconnect task                  *)
(***************************************************************************)
MAX_RECONNECT_BACKOFF_MS == 30000

\* what the steps of the SignalR client leave unchanged
SignalrOnly ==
    UNCHANGED << machine, sm_h, event_group_, disp, tt, queue, session,
                 audio, activation, others, hist, aux, mcp, login >>

\* the tasks created and not yet deleted
AliveTasks ==
    { t \in 1 .. MaxReconnectTasks : rc_pc[t] \notin { "unborn", "gone" } }

\* the tasks created so far
CreatedTasks == { t \in 1 .. MaxReconnectTasks : rc_pc[t] # "unborn" }

RcGoto(t, pc) == rc_pc' = [rc_pc EXCEPT ![t] = pc]

\* Initialize(hub_url, token), on the dispatcher: initialized_ = true
SignalrInitialize ==
    /\ rr_pc = "idle"
    /\ signalr_events > 0
    /\ ~initialized_
    /\ signalr_events' = signalr_events - 1
    /\ initialized_' = TRUE
    /\ UNCHANGED << connecting_, hub_connected, reconnect_requested_,
                    reconnect_task_handle_, reconnect_task_running_,
                    reconnect_task_stack_, reconnect_backoff_ms_, rr_pc,
                    rc_pc >>
    /\ SignalrOnly

\* Reset(), on the dispatcher: Disconnect, the flags, connection_.reset()
SignalrReset ==
    /\ rr_pc = "idle"
    /\ signalr_events > 0
    /\ initialized_
    /\ signalr_events' = signalr_events - 1
    /\ initialized_' = FALSE
    /\ connecting_' = FALSE
    /\ hub_connected' = FALSE
    /\ UNCHANGED << reconnect_requested_, reconnect_task_handle_,
                    reconnect_task_running_, reconnect_task_stack_,
                    reconnect_backoff_ms_, rr_pc, rc_pc >>
    /\ SignalrOnly

\* Connect: the callback given to connection_->start, with the state of the
\* connection it reports
HubStartDone ==
    /\ connecting_
    /\ connecting_' = FALSE
    /\ hub_connected' \in BOOLEAN
    /\ UNCHANGED << initialized_, reconnect_requested_,
                    reconnect_task_handle_, reconnect_task_running_,
                    reconnect_task_stack_, reconnect_backoff_ms_, rr_pc,
                    rc_pc, signalr_events >>
    /\ SignalrOnly

\* the connection to the hub is lost
HubConnectionLost ==
    /\ hub_connected
    /\ signalr_events > 0
    /\ signalr_events' = signalr_events - 1
    /\ hub_connected' = FALSE
    /\ UNCHANGED << initialized_, connecting_, reconnect_requested_,
                    reconnect_task_handle_, reconnect_task_running_,
                    reconnect_task_stack_, reconnect_backoff_ms_, rr_pc,
                    rc_pc >>
    /\ SignalrOnly

\* RequestReconnect: the three early returns
RequestSkipped == ~initialized_ \/ connecting_ \/ hub_connected

\* RequestReconnect up to reconnect_requested_.store(true)
RequestReconnect ==
    /\ rr_pc = "idle"
    /\ signalr_events > 0
    /\ signalr_events' = signalr_events - 1
    /\ IF RequestSkipped
       THEN UNCHANGED << reconnect_requested_, rr_pc >>
       ELSE /\ reconnect_requested_' = TRUE
            /\ rr_pc' = "check_task"
    /\ UNCHANGED << initialized_, connecting_, hub_connected,
                    reconnect_task_handle_, reconnect_task_running_,
                    reconnect_task_stack_, reconnect_backoff_ms_, rc_pc >>
    /\ SignalrOnly

\* RequestReconnect: reconnect_task_handle_ == nullptr &&
\* !reconnect_task_running_.load()
NoReconnectTask == reconnect_task_handle_ = 0 /\ ~reconnect_task_running_

\* RequestReconnect: the test for a task and reconnect_task_running_.store(true)
RequestCheckTask ==
    /\ rr_pc = "check_task"
    /\ IF NoReconnectTask
       THEN /\ reconnect_task_running_' = TRUE
            /\ rr_pc' = "create"
       ELSE /\ rr_pc' = "idle"
            /\ UNCHANGED reconnect_task_running_
    /\ UNCHANGED << initialized_, connecting_, hub_connected,
                    reconnect_requested_, reconnect_task_handle_,
                    reconnect_task_stack_, reconnect_backoff_ms_, rc_pc,
                    signalr_events >>
    /\ SignalrOnly

\* RequestReconnect: the two allocations, made once, either of which may
\* fail, and xTaskCreateStatic on the stack and the buffer
RequestCreateTask ==
    /\ rr_pc = "create"
    /\ rr_pc' = "idle"
    /\ \/ /\ ~reconnect_task_stack_
          /\ reconnect_task_running_' = FALSE
          /\ UNCHANGED << reconnect_task_stack_, reconnect_task_handle_,
                          rc_pc >>
       \/ /\ CreatedTasks # 1 .. MaxReconnectTasks
          /\ LET t == Cardinality(CreatedTasks) + 1
             IN  /\ reconnect_task_handle_' = t
                 /\ RcGoto(t, "top")
          /\ reconnect_task_stack_' = TRUE
          /\ UNCHANGED reconnect_task_running_
    /\ UNCHANGED << initialized_, connecting_, hub_connected,
                    reconnect_requested_, reconnect_backoff_ms_,
                    signalr_events >>
    /\ SignalrOnly

\* ReconnectTaskLoop: while (reconnect_task_running_.load())
RcLoopTop(t) ==
    /\ rc_pc[t] = "top"
    /\ RcGoto(t, IF reconnect_task_running_ THEN "woke" ELSE "clear_running")
    /\ UNCHANGED << initialized_, connecting_, hub_connected,
                    reconnect_requested_, reconnect_task_handle_,
                    reconnect_task_running_, reconnect_task_stack_,
                    reconnect_backoff_ms_, rr_pc, signalr_events >>
    /\ SignalrOnly

\* ReconnectTaskLoop after vTaskDelay(500): the exit check, the request flag
\* and its reset
RcWoke(t) ==
    /\ rc_pc[t] = "woke"
    /\ IF ~reconnect_task_running_
       THEN RcGoto(t, "clear_running") /\ UNCHANGED reconnect_requested_
       ELSE IF ~reconnect_requested_
       THEN RcGoto(t, "top") /\ UNCHANGED reconnect_requested_
       ELSE RcGoto(t, "recheck") /\ reconnect_requested_' = FALSE
    /\ UNCHANGED << initialized_, connecting_, hub_connected,
                    reconnect_task_handle_, reconnect_task_running_,
                    reconnect_task_stack_, reconnect_backoff_ms_, rr_pc,
                    signalr_events >>
    /\ SignalrOnly

\* ReconnectTaskLoop: "Check preconditions again"
RcRecheck(t) ==
    /\ rc_pc[t] = "recheck"
    /\ IF ~initialized_
       THEN RcGoto(t, "clear_running") /\ UNCHANGED reconnect_backoff_ms_
       ELSE IF connecting_
       THEN RcGoto(t, "top") /\ UNCHANGED reconnect_backoff_ms_
       ELSE IF hub_connected
       THEN RcGoto(t, "top") /\ reconnect_backoff_ms_' = 1000
       ELSE RcGoto(t, "connect") /\ UNCHANGED reconnect_backoff_ms_
    /\ UNCHANGED << initialized_, connecting_, hub_connected,
                    reconnect_requested_, reconnect_task_handle_,
                    reconnect_task_running_, reconnect_task_stack_, rr_pc,
                    signalr_events >>
    /\ SignalrOnly

\* ReconnectTaskLoop: Connect(), which returns false at once when the client
\* is not initialized and else starts the connection
RcConnect(t) ==
    /\ rc_pc[t] = "connect"
    /\ connecting_' = IF initialized_ THEN TRUE ELSE connecting_
    /\ RcGoto(t, "connected")
    /\ UNCHANGED << initialized_, hub_connected, reconnect_requested_,
                    reconnect_task_handle_, reconnect_task_running_,
                    reconnect_task_stack_, reconnect_backoff_ms_, rr_pc,
                    signalr_events >>
    /\ SignalrOnly

\* std::min(reconnect_backoff_ms_ * 2, MAX_RECONNECT_BACKOFF_MS)
NextBackoff(ms) ==
    IF ms * 2 < MAX_RECONNECT_BACKOFF_MS THEN ms * 2
    ELSE MAX_RECONNECT_BACKOFF_MS

\* ReconnectTaskLoop: if (IsConnected()) after Connect, or the backoff and
\* the new request
RcAfterConnect(t) ==
    /\ rc_pc[t] = "connected"
    /\ IF hub_connected
       THEN /\ reconnect_backoff_ms_' = 1000
            /\ UNCHANGED reconnect_requested_
       ELSE /\ reconnect_backoff_ms_' = NextBackoff(reconnect_backoff_ms_)
            /\ reconnect_requested_' = TRUE
    /\ RcGoto(t, "top")
    /\ UNCHANGED << initialized_, connecting_, hub_connected,
                    reconnect_task_handle_, reconnect_task_running_,
                    reconnect_task_stack_, rr_pc, signalr_events >>
    /\ SignalrOnly

\* ReconnectTaskLoop: reconnect_task_running_.store(false) after the loop
RcClearRunning(t) ==
    /\ rc_pc[t] = "clear_running"
    /\ reconnect_task_running_' = FALSE
    /\ RcGoto(t, "clear_handle")
    /\ UNCHANGED << initialized_, connecting_, hub_connected,
                    reconnect_requested_, reconnect_task_handle_,
                    reconnect_task_stack_, reconnect_backoff_ms_, rr_pc,
                    signalr_events >>
    /\ SignalrOnly

\* ReconnectTaskEntry: self->reconnect_task_handle_ = nullptr
RcClearHandle(t) ==
    /\ rc_pc[t] = "clear_handle"
    /\ reconnect_task_handle_' = 0
    /\ RcGoto(t, "delete")
    /\ UNCHANGED << initialized_, connecting_, hub_connected,
                    reconnect_requested_, reconnect_task_running_,
                    reconnect_task_stack_, reconnect_backoff_ms_, rr_pc,
                    signalr_events >>
    /\ SignalrOnly

\* ReconnectTaskEntry: vTaskDelete(NULL)
RcDelete(t) ==
    /\ rc_pc[t] = "delete"
    /\ RcGoto(t, "gone")
    /\ UNCHANGED << initialized_, connecting_, hub_connected,
                    reconnect_requested_, reconnect_task_handle_,
                    reconnect_task_running_, reconnect_task_stack_,
                    reconnect_backoff_ms_, rr_pc, signalr_events >>
    /\ SignalrOnly

ReconnectTaskNext ==
    \E t \in 1 .. MaxReconnectTasks :
       \/ RcLoopTop(t)
       \/ RcWoke(t)
       \/ RcRecheck(t)
       \/ RcConnect(t)
       \/ RcAfterConnect(t)
       \/ RcClearRunning(t)
       \/ RcClearHandle(t)
       \/ RcDelete(t)

SignalrNext ==
    \/ SignalrInitialize
    \/ SignalrReset
    \/ HubStartDone
    \/ HubConnectionLost
    \/ RequestReconnect
    \/ RequestCheckTask
    \/ RequestCreateTask
    \/ ReconnectTaskNext

\* the SignalR client, its caller on the dispatcher and its reconnect tasks
SpecSignalr == CoreAtRest /\ [][SignalrNext]_vars

(***************************************************************************)
(* Properties of the state machine (checked under SpecSM)                  *)
(***************************************************************************)
\* the transition table as the specification prints it
TransitionTable ==
    { << kDeviceStateUnknown, kDeviceStateStarting >>,
      << kDeviceStateStarting, kDeviceStateWifiConfiguring >>,
      << kDeviceStateStarting, kDeviceStateActivating >>,
      << kDeviceStateWifiConfiguring, kDeviceStateActivating >>,
      << kDeviceStateWifiConfiguring, kDeviceStateAudioTesting >>,
      << kDeviceStateAudioTesting, kDeviceStateWifiConfiguring >>,
      << kDeviceStateActivating, kDeviceStateUpgrading >>,
      << kDeviceStateActivating, kDeviceStateIdle >>,
      << kDeviceStateActivating, kDeviceStateWifiConfiguring >>,
      << kDeviceStateUpgrading, kDeviceStateIdle >>,
      << kDeviceStateUpgrading, kDeviceStateActivating >>,
      << kDeviceStateIdle, kDeviceStateConnecting >>,
      << kDeviceStateIdle, kDeviceStateListening >>,
      << kDeviceStateIdle, kDeviceStateSpeaking >>,
      << kDeviceStateIdle, kDeviceStateActivating >>,
      << kDeviceStateIdle, kDeviceStateUpgrading >>,
      << kDeviceStateIdle, kDeviceStateWifiConfiguring >>,
      << kDeviceStateConnecting, kDeviceStateIdle >>,
      << kDeviceStateConnecting, kDeviceStateListening >>,
      << kDeviceStateListening, kDeviceStateSpeaking >>,
      << kDeviceStateListening, kDeviceStateIdle >>,
      << kDeviceStateSpeaking, kDeviceStateListening >>,
      << kDeviceStateSpeaking, kDeviceStateIdle >> }

InTable(s, t) == << s, t >> \in TransitionTable

\* the outermost call was TransitionTo and has returned
SMReturned == sm_call.op = "TransitionTo" /\ sm_call.done

\* the invocations of notification pass n, in the order they were made
PassLog(n) == SelectSeq(sm_log, LAMBDA e : e.pass = n)

\* C1: CanTransitionTo(t) in state s returns true iff s = t or (s, t) is an
\* edge of the transition table, and it leaves the current state alone.
C1_CanTransitionToIsTable ==
    sm_call.op = "CanTransitionTo" =>
        /\ sm_call.ret <=> (sm_call.from = sm_call.target
                               \/ InTable(sm_call.from, sm_call.target))
        /\ current_state_ = sm_call.from

C1_Witness ==
    /\ sm_call.op = "CanTransitionTo"
    /\ sm_call.from = kDeviceStateSpeaking
    /\ sm_call.target = kDeviceStateSpeaking
    /\ sm_call.ret

\* C2: a TransitionTo(t) along an edge (s, t) returns true, stores t, and
\* invokes every listener registered at the call exactly once with (s, t),
\* in registration order, after the store.
C2_ValidTransitionNotifiesAll ==
    (SMReturned /\ sm_call.from # sm_call.target
        /\ InTable(sm_call.from, sm_call.target)) =>
        /\ sm_call.ret
        /\ sm_passes = 1 => current_state_ = sm_call.target
        /\ Ids(PassLog(1)) = Ids(sm_call.reg)
        /\ \A i \in 1 .. Len(PassLog(1)) :
              /\ PassLog(1)[i].old = sm_call.from
              /\ PassLog(1)[i].new = sm_call.target
              /\ PassLog(1)[i].stored

C2_Witness ==
    /\ SMReturned /\ sm_call.ret
    /\ sm_call.from = kDeviceStateIdle
    /\ sm_call.target = kDeviceStateListening
    /\ Len(sm_call.reg) = 2
    /\ Len(sm_log) = 2
    /\ current_state_ = kDeviceStateListening

\* C3: a TransitionTo(t) with s # t and (s, t) no edge returns false, leaves
\* the state s and invokes no listener.
C3_InvalidTransitionRejected ==
    (SMReturned /\ sm_call.from # sm_call.target
        /\ ~InTable(sm_call.from, sm_call.target)) =>
        /\ ~sm_call.ret
        /\ current_state_ = sm_call.from
        /\ sm_log = << >>

C3_Witness ==
    /\ SMReturned /\ ~sm_call.ret
    /\ sm_call.from = kDeviceStateListening
    /\ sm_call.target = kDeviceStateConnecting
    /\ Len(listeners_) = 2

\* C4: TransitionTo(s) in state s, FatalError included, returns true, leaves
\* the state s and invokes no listener.
C4_SelfTransitionNoOp ==
    (SMReturned /\ sm_call.from = sm_call.target) =>
        /\ sm_call.ret
        /\ current_state_ = sm_call.from
        /\ sm_log = << >>

C4_Witness ==
    /\ SMReturned /\ sm_call.ret
    /\ sm_call.from = kDeviceStateFatalError
    /\ sm_call.target = kDeviceStateFatalError
    /\ Len(listeners_) = 2

\* C5: FatalError is terminal: no step leaves it, and every TransitionTo(t)
\* with t # FatalError made in it returns false.
C5_FatalErrorTerminal ==
    /\ [][current_state_ = kDeviceStateFatalError
             => current_state_' = kDeviceStateFatalError]_vars
    /\ [](SMReturned /\ sm_call.from = kDeviceStateFatalError
             /\ sm_call.target # kDeviceStateFatalError => ~sm_call.ret)

C5_Witness ==
    /\ SMReturned /\ ~sm_call.ret
    /\ sm_call.from = kDeviceStateFatalError
    /\ sm_call.target = kDeviceStateIdle
    /\ current_state_ = kDeviceStateFatalError

\* C7: a notification pass invokes exactly the listeners registered when it
\* began, once each and in order, whatever the callbacks add or remove during
\* the pass, and no lock of the listener mutex is attempted while it is held.
C7_ListenerSnapshotSafety ==
    /\ ~sm_deadlock
    /\ sm_pass.num > 0 => Ids(PassLog(sm_pass.num)) = Ids(sm_pass.reg)

\* the first listener removed the second one during the pass
C7_Witness ==
    /\ sm_pass.num > 0
    /\ Len(sm_pass.reg) = 2
    /\ sm_pass.reg[1].cb = CbRemove(sm_pass.reg[2].id)
    /\ Ids(listeners_) = << sm_pass.reg[1].id >>
    /\ Len(PassLog(sm_pass.num)) = 2

(***************************************************************************)
(* Properties of the application (checked under SpecApp)                   *)
(***************************************************************************)
\* C6: whatever the interleaving of the SetDeviceState calls of the
\* dispatcher, the activation task and the button callback, with the load
\* and the store of TransitionTo as separate steps, every change of
\* current_state_ is an edge of the transition table.
C6_EveryChangeIsTableEdge ==
    [][current_state_' # current_state_
          => InTable(current_state_, current_state_')]_vars

\* a store that replaced a state other than the one its checks had loaded
C6_Witness ==
    \E th \in Threads :
        /\ tt[th].pc = "notify"
        /\ tt[th].seen # tt[th].old_state
        /\ tt[th].seen # tt[th].new_state

\* the order of the handlers as the dispatcher's description gives it
ClaimedOrder ==
    << MAIN_EVENT_ERROR, MAIN_EVENT_NETWORK_CONNECTED,
       MAIN_EVENT_NETWORK_DISCONNECTED, MAIN_EVENT_ACTIVATION_DONE,
       MAIN_EVENT_STATE_CHANGED, MAIN_EVENT_TOGGLE_CHAT,
       MAIN_EVENT_START_LISTENING, MAIN_EVENT_STOP_LISTENING,
       MAIN_EVENT_SEND_AUDIO, MAIN_EVENT_WAKE_WORD_DETECTED,
       MAIN_EVENT_VAD_CHANGE, MAIN_EVENT_SCHEDULE, MAIN_EVENT_CLOCK_TICK >>

ClaimedPos(flag) == CHOOSE j \in 1 .. Len(ClaimedOrder) : ClaimedOrder[j] = flag

\* C8: within one pass the handlers run in the fixed order error,
\* network-connected, network-disconnected, activation-done, state-changed,
\* toggle-chat, start-listening, stop-listening, send-audio,
\* wake-word-detected, VAD-changed, schedule, clock-tick.
C8_HandlersRunInFixedOrder ==
    \A i, j \in 1 .. Len(pass_log) :
        i < j => ClaimedPos(pass_log[i]) < ClaimedPos(pass_log[j])

\* a pass that ran error, then network-disconnected, then send-audio
C8_Witness ==
    /\ main_pc = "pass"
    /\ pass_log = << MAIN_EVENT_ERROR, MAIN_EVENT_NETWORK_DISCONNECTED,
                     MAIN_EVENT_SEND_AUDIO >>

(***************************************************************************)
(* Properties of the dispatcher under fair scheduling (FairSpecApp)        *)
(***************************************************************************)
Range(seq) == { seq[i] : i \in 1 .. Len(seq) }

\* the pass has no block left to enter
PassOver == MainReady /\ NextIdx = 0

\* the handler of `flag` has run in the current pass
Handled(flag) == main_pc = "pass" /\ flag \in Range(pass_log)

\* C9: a wake reads and clears all pending flags in one step; each flag it
\* observed has its handler run exactly once in that pass; a flag set after
\* the wake, by a handler included, is not handled in the current pass,
\* stays pending, and is handled in a later pass.
C9_WakeClearsAndNoFlagIsLost ==
    /\ [][main_pc = "wait" /\ main_pc' = "pass"
             => bits' = event_group_ /\ event_group_' = {}]_vars
    /\ [][main_pc = "pass" /\ main_pc' = "pass"
             => bits' = bits /\ event_group_ \subseteq event_group_']_vars
    /\ [][main_pc' = main_pc => event_group_ \subseteq event_group_']_vars
    /\ [](/\ Range(pass_log) \subseteq bits
          /\ Cardinality(Range(pass_log)) = Len(pass_log)
          /\ PassOver => Range(pass_log) = bits)
    /\ \A flag \in ALL_EVENTS :
          (flag \in event_group_)
              ~> ((flag \notin event_group_ /\ Handled(flag)) \/ ~Running)

\* a flag set by a handler after the wake, its block already behind, pending
C9_Witness ==
    /\ main_pc = "pass"
    /\ MAIN_EVENT_STATE_CHANGED \in event_group_
    /\ MAIN_EVENT_STATE_CHANGED \notin bits
    /\ MAIN_EVENT_TOGGLE_CHAT \in Range(pass_log)

\* every queued task is covered by a schedule flag that is pending, is about
\* to be set, or has been observed by a pass that has not drained yet
QueueCovered ==
    main_tasks_ # << >> =>
        \/ MAIN_EVENT_SCHEDULE \in event_group_
        \/ prod_pc = "set_bits"
        \/ /\ main_pc = "pass"
           /\ MAIN_EVENT_SCHEDULE \in bits
           /\ ~AfterMove

\* C10: a drain runs only the tasks that were queued when it moved the
\* queue; a task enqueued while the drain runs is not executed in that
\* drain, and it is executed in a later pass.
C10_DrainIsolation ==
    /\ [](\A i \in 1 .. Len(ran) : ~ran[i].late)
    /\ [](\A i \in 1 .. Len(tasks) : ~tasks[i].late)
    /\ []QueueCovered
    /\ (main_tasks_ # << >>) ~> ((main_tasks_ = << >>) \/ ~Running)
    /\ (tasks # << >>) ~> ((tasks = << >>) \/ ~Running)

\* a drain that has run its tasks while one enqueued during it stays queued
C10_Witness ==
    /\ main_pc = "pass"
    /\ main_i >= 1
    /\ HandlerOrder[main_i] = MAIN_EVENT_SCHEDULE
    /\ tasks = << >>
    /\ main_prog = << >>
    /\ ran # << >>
    /\ \E i \in 1 .. Len(main_tasks_) : main_tasks_[i].late

(***************************************************************************)
(* C11: the queue of scheduled closures is first in, first out             *)
(***************************************************************************)
\* C11: if Schedule(a) has inserted a before Schedule(b) begins, the
\* dispatcher runs a before b: the closures the pass has run, those it has
\* moved out and those still in main_tasks_ are, in that order of
\* execution, in the order of their insertion, whoever inserted them.
C11_ScheduleIsFifo ==
    \A i, j \in 1 .. Len(Known) : i < j => Known[i].seq < Known[j].seq

\* a pass has run one closure, holds a second one that it has moved out, and
\* a third one has been inserted since
C11_Witness ==
    /\ ran # << >>
    /\ tasks # << >>
    /\ main_tasks_ # << >>

(***************************************************************************)
(* C12: a scheduled closure is run, and run once                           *)
(***************************************************************************)
\* the closures that wait to be run, oldest first
Queued == tasks \o main_tasks_

Kinds(q) == [i \in 1 .. Len(q) |-> q[i].kind]

\* C12: every closure passed to Schedule is run exactly once, however the
\* push and the SetBits of the producer interleave with the wait, the clear
\* and the drain: the waiting closures change only by an insertion at the
\* back or by the dispatcher taking the oldest one and running it; a
\* closure is run only in the step that takes it off; and, the dispatcher
\* being scheduled fairly, the closures that wait are all run in the end
\* (unless the firmware restarts first).
C12_ScheduledTaskRunsOnce ==
    /\ [][LET q == Kinds(Queued)
              q2 == Kinds(Queued)'
          IN  \/ /\ q2 = q
                 /\ ran' = ran \/ ran' = << >>
              \/ /\ Len(q2) = Len(q) + 1
                 /\ SubSeq(q2, 1, Len(q)) = q
                 /\ ran' = ran
              \/ /\ q # << >>
                 /\ q2 = Tail(q)
                 /\ Kinds(ran') = Append(Kinds(ran), Head(q))
                 /\ main_prog' = TaskProgram(Head(q))]_vars
    /\ (Queued # << >>) ~> (Queued = << >> \/ ~Running)

\* the drain has run the closure of a producer that has pushed it and has
\* not raised the flag yet
C12_Witness ==
    /\ prod_pc = "set_bits"
    /\ main_pc = "pass"
    /\ ran # << >>
    /\ Queued = << >>

(***************************************************************************)
(* C13: the send-audio loop stops at the first packet that cannot be sent  *)
(***************************************************************************)
\* the record of the running handler holds a SendAudio that returned false
SendFailed == \E i \in 1 .. Len(trace) : trace[i].e = "send" /\ ~trace[i].o

\* C13: when SendAudio returns false for a packet, the pass makes no further
\* SendAudio call, and the packets behind it stay in the send queue, in
\* order, until a later send-audio flag is handled: no call follows a failed
\* one in the record of the handler; the packets are sent in the order of
\* the queue; and the queue changes only by the encoder appending a packet
\* or by the loop of a send-audio block, none of whose calls has failed,
\* taking the packet at the front.
C13_SendAudioBackpressure ==
    /\ [](\A i, j \in 1 .. Len(trace) :
             i < j /\ trace[i].e = "send" /\ trace[j].e = "send"
                 => trace[i].o /\ trace[i].n < trace[j].n)
    /\ [](\A i \in 1 .. Len(trace), k \in 1 .. Len(send_queue) :
             trace[i].e = "send" => trace[i].n < send_queue[k])
    /\ [][send_queue' # send_queue =>
            \/ send_queue' = Append(send_queue, next_packet)
            \/ /\ send_queue # << >>
               /\ send_queue' = Tail(send_queue)
               /\ MainAt("send_audio")
               /\ ~SendFailed]_vars

\* the first packet went out, the second could not be sent, and the block has
\* ended with the third still in the queue
C13_Witness ==
    /\ MainReady
    /\ Len(trace) = 3
    /\ trace[1].e = "begin" /\ trace[1].a = MAIN_EVENT_SEND_AUDIO
    /\ trace[2].e = "send" /\ trace[2].o
    /\ trace[3].e = "send" /\ ~trace[3].o
    /\ send_queue # << >>

(***************************************************************************)
(* C14: CanEnterSleepMode                                                  *)
(***************************************************************************)
\* C14: CanEnterSleepMode returns true if and only if the device state is
\* Idle, no audio channel of the protocol is open (there is no protocol, or
\* IsAudioChannelOpened is false) and AudioService::IsIdle is true; and the
\* call changes nothing of the application.
C14_CanEnterSleepMode ==
    /\ [](sleep_check.pc = "returned" =>
             (sleep_check.result <=>
                 /\ sleep_check.state = kDeviceStateIdle
                 /\ ~sleep_check.protocol \/ ~sleep_check.opened
                 /\ sleep_check.audio_idle))
    /\ [][sleep_check'.n # sleep_check.n =>
            UNCHANGED << machine, event_group_, disp, tt, queue, session,
                         audio, activation, btn_pc, prod_pc, halted, hist,
                         send_queue, next_packet >>]_vars

\* the call found the device Idle and the audio service idle, with the audio
\* channel still open, and returned false
C14_Witness ==
    /\ sleep_check.pc = "returned"
    /\ sleep_check.state = kDeviceStateIdle
    /\ sleep_check.protocol /\ sleep_check.opened
    /\ sleep_check.audio_idle
    /\ ~sleep_check.result

(***************************************************************************)
(* Reading the record of the running handler or task                       *)
(***************************************************************************)
\* the record is that of the block of `flag`
HandlerOf(flag) ==
    /\ trace # << >>
    /\ trace[1].e = "begin"
    /\ trace[1].a = flag

\* the record is that of a scheduled closure of this kind
TaskOf(kind) ==
    /\ trace # << >>
    /\ trace[1].e = "task"
    /\ trace[1].a = kind

\* the handler or the task of the record has returned
Returned ==
    /\ Running
    /\ main_pc = "pass"
    /\ main_prog = << >>
    /\ tt["main"].pc = "none"

IsStore(ev) == ev.e = "state"

\* the values current_state_ has taken since the handler or the task began
StatesSeen ==
    LET st == SelectSeq(trace, IsStore)
    IN  [i \in 1 .. Len(st) |-> st[i].a]

\* the values the dispatcher itself has stored since then
StoredByMain ==
    LET IsMine(ev) == ev.e = "state" /\ ev.s = "main"
        st == SelectSeq(trace, IsMine)
    IN  [i \in 1 .. Len(st) |-> st[i].a]

OpenedOk == \E i \in 1 .. Len(trace) : trace[i].e = "open" /\ trace[i].o

OpenFailed == \E i \in 1 .. Len(trace) : trace[i].e = "open" /\ ~trace[i].o

IsPrefix(p, q) == Len(p) <= Len(q) /\ SubSeq(q, 1, Len(p)) = p

(***************************************************************************)
(* C15: toggle-chat in Idle                                                *)
(***************************************************************************)
\* C15: when the toggle-chat flag is handled in Idle with a protocol and the
\* audio channel not open, and OpenAudioChannel returns true, the device
\* state goes Idle -> Connecting -> Listening with no other state in
\* between, and the listening mode is AutoStop when the AEC mode is Off and
\* Realtime otherwise.
C15_ToggleGoesConnectingListening ==
    (/\ HandlerOf(MAIN_EVENT_TOGGLE_CHAT)
     /\ trace[1].s = kDeviceStateIdle
     /\ ~trace[1].o
     /\ OpenedOk)
    => /\ IsPrefix(StatesSeen,
                   << kDeviceStateConnecting, kDeviceStateListening >>)
       /\ Returned =>
             /\ StatesSeen =
                    << kDeviceStateConnecting, kDeviceStateListening >>
             /\ listening_mode_ = IF aec_mode_ = kAecOff
                                  THEN kListeningModeAutoStop
                                  ELSE kListeningModeRealtime

(***************************************************************************)
(* C16: the closure scheduled for a tts "stop" message                     *)
(***************************************************************************)
\* the state a closure found when it began, and whether another task has
\* stored to current_state_ since
Undisturbed == StatesSeen = StoredByMain

\* C16: when the "stop" closure runs and the state is Speaking, the device
\* goes to Idle if the listening mode is ManualStop and to Listening if it is
\* AutoStop or Realtime; in any other state the closure leaves the state as
\* it is.
C16_TtsStop ==
    (TaskOf("tts_stop") /\ Returned) =>
        LET target == IF listening_mode_ = kListeningModeManualStop
                      THEN kDeviceStateIdle
                      ELSE kDeviceStateListening
        IN  IF trace[1].s = kDeviceStateSpeaking
            THEN /\ \E i \in 1 .. Len(StatesSeen) : StatesSeen[i] = target
                 /\ StoredByMain \in { << >>, << target >> }
                 /\ Undisturbed => StatesSeen = << target >>
            ELSE /\ StoredByMain = << >>
                 /\ Len(trace) = 1

\* the closure has taken the device from Speaking to Listening in the
\* Realtime mode
C16_Witness ==
    /\ TaskOf("tts_stop")
    /\ Returned
    /\ trace[1].s = kDeviceStateSpeaking
    /\ listening_mode_ = kListeningModeRealtime
    /\ StatesSeen = << kDeviceStateListening >>

(***************************************************************************)
(* C17: the closure scheduled for a tts "start" message                    *)
(***************************************************************************)
\* C17: when the "start" closure runs, the state becomes Speaking if the
\* current state (the one TransitionTo loads) is Idle, Listening or
\* Speaking, and is left as it is in every other state, the change going
\* through the transition table: the call goes on to the store of Speaking
\* exactly from Idle and Listening, the store makes the state Speaking, and
\* the closure stores nothing else.
C17_TtsStart ==
    /\ [][(TaskOf("tts_start") /\ MainAt("set")
              /\ main_prog' = Tail(main_prog)) =>
            IF current_state_ \in { kDeviceStateIdle, kDeviceStateListening }
            THEN /\ tt'["main"].pc = "store"
                 /\ tt'["main"].new_state = kDeviceStateSpeaking
            ELSE tt'["main"].pc = "none"]_vars
    /\ [][(TaskOf("tts_start") /\ tt["main"].pc = "store"
              /\ tt'["main"].pc = "notify") =>
            current_state_' = kDeviceStateSpeaking]_vars
    /\ [](TaskOf("tts_start") =>
             /\ StoredByMain \in { << >>, << kDeviceStateSpeaking >> }
             /\ (Returned /\ Undisturbed) =>
                    StatesSeen =
                        IF trace[1].s \in { kDeviceStateIdle,
                                            kDeviceStateListening }
                        THEN << kDeviceStateSpeaking >>
                        ELSE << >>)

\* the closure has run in Connecting and has left the state as it was
C17_Witness ==
    /\ TaskOf("tts_start")
    /\ Returned
    /\ trace[1].s = kDeviceStateConnecting
    /\ StatesSeen = << >>
    /\ current_state_ = kDeviceStateConnecting

(***************************************************************************)
(* C19: aborting the speech                                                *)
(***************************************************************************)
\* the state the handler or the task of the record left when it returned
StateAtReturn ==
    IF StatesSeen = << >> THEN trace[1].s
    ELSE StatesSeen[Len(StatesSeen)]

AbortReasonOf(flag) ==
    IF flag = MAIN_EVENT_WAKE_WORD_DETECTED THEN kAbortReasonWakeWordDetected
    ELSE kAbortReasonNone

\* C19: handling the wake-word flag in Speaking calls
\* SendAbortSpeaking(WakeWordDetected), handling the toggle-chat flag in
\* Speaking calls SendAbortSpeaking(None), and in both cases the device state
\* is still Speaking when the handler returns.
C19_AbortLeavesSpeaking ==
    \A flag \in { MAIN_EVENT_WAKE_WORD_DETECTED, MAIN_EVENT_TOGGLE_CHAT } :
        (/\ HandlerOf(flag)
         /\ trace[1].s = kDeviceStateSpeaking
         /\ protocol_
         /\ Returned)
        => /\ \E i \in 1 .. Len(trace) :
                 trace[i].e = "abort" /\ trace[i].a = AbortReasonOf(flag)
           /\ StateAtReturn = kDeviceStateSpeaking

(***************************************************************************)
(* C18: the network is lost while the device listens                       *)
(***************************************************************************)
\* the block of the network-disconnected flag began in Listening with the
\* audio channel open
LostWhileListening(ev) ==
    /\ ev.e = "begin"
    /\ ev.a = MAIN_EVENT_NETWORK_DISCONNECTED
    /\ ev.s = kDeviceStateListening
    /\ ev.o

ClosesInRecord ==
    Cardinality({ i \in 1 .. Len(trace) : trace[i].e = "close" })

\* C18 as claimed: when the network-disconnected flag is handled in Listening
\* with the audio channel open, CloseAudioChannel is called exactly once in
\* that pass, and the state subsequently becomes Idle.
C18_ClosedOnceInThePass ==
    /\ []((\E i \in 1 .. Len(pass_closes) :
               LostWhileListening(pass_closes[i]))
              => Len(pass_closes) = 1)
    /\ (trace # << >> /\ LostWhileListening(trace[1]))
           ~> (current_state_ = kDeviceStateIdle \/ ~Running)

\* C18, amended: when the network-disconnected flag is handled in Listening
\* with the audio channel open, the handler of that flag calls
\* CloseAudioChannel exactly once (another handler of the same pass may call
\* it again), and the state subsequently becomes Idle (unless the firmware
\* restarts first).
C18_HandlerClosesOnce ==
    /\ []((trace # << >> /\ LostWhileListening(trace[1])) =>
             /\ ClosesInRecord <= 1
             /\ Returned => ClosesInRecord = 1)
    /\ (trace # << >> /\ LostWhileListening(trace[1]))
           ~> (current_state_ = kDeviceStateIdle \/ ~Running)

\* the handler has returned after its one call, the state still Listening
C18_Witness ==
    /\ trace # << >>
    /\ LostWhileListening(trace[1])
    /\ Returned
    /\ ClosesInRecord = 1
    /\ current_state_ = kDeviceStateListening

(***************************************************************************)
(* C20: OpenAudioChannel fails                                             *)
(***************************************************************************)
\* C20: when OpenAudioChannel returns false during an open attempt from Idle
\* that the toggle-chat, the start-listening or the wake-word flag has
\* started, the attempt is given up, the state never becomes FatalError,
\* and the device state is Idle after the attempt, not Connecting.
C20_FailedOpenLeavesIdle ==
    \A flag \in { MAIN_EVENT_TOGGLE_CHAT, MAIN_EVENT_START_LISTENING,
                  MAIN_EVENT_WAKE_WORD_DETECTED } :
        (/\ HandlerOf(flag)
         /\ trace[1].s = kDeviceStateIdle
         /\ OpenFailed
         /\ Returned)
        => /\ trace[Len(trace)].e = "open"
           /\ \A i \in 1 .. Len(StatesSeen) :
                 StatesSeen[i] # kDeviceStateFatalError
           /\ StateAtReturn = kDeviceStateIdle

(***************************************************************************)
(* C21: the block of the error flag                                        *)
(***************************************************************************)
AlertsInRecord ==
    SelectSeq(trace, LAMBDA ev : ev.e = "alert")

C22_OnlyDispatcherTransitions ==
    /\ [](\A th \in Threads \ { "main" } : tt[th].pc = "none")
    /\ [][current_state_' # current_state_ =>
             (tt["main"].pc = "store" \/ main_pc = "init")]_vars


(***************************************************************************)
(* The version check of the activation task (checked under SpecBoot)       *)
(***************************************************************************)
\* the waits CheckNewVersion announces in its alerts: 10 s, then the double
\* of the wait before
RetryDelays(n) == [k \in 1 .. n |-> InitialRetryDelay * (2 ^ (k - 1))]

\* C23: while CheckVersion fails on every call, CheckNewVersion makes at most
\* MAX_RETRY attempts; each failure that is retried is announced by one alert
\* and the announced waits are 10 s, 20 s, 40 s, ...; the failure that is the
\* MAX_RETRY-th in a row is not retried: CheckNewVersion returns and the
\* activation task goes on to InitializeProtocol
C23_VersionCheckRetryBounded ==
    /\ [](LET cnv == check_new_version
          IN  /\ cnv.attempts = cnv.retry_count
              /\ cnv.attempts <= MAX_RETRY
              /\ cnv.alerts = RetryDelays(Len(cnv.alerts))
              /\ Len(cnv.alerts) = IF cnv.retry_count = MAX_RETRY
                                   THEN MAX_RETRY - 1
                                   ELSE cnv.retry_count
              /\ cnv.retry_delay
                    = InitialRetryDelay * (2 ^ Len(cnv.alerts))
              /\ cnv.retry_count = MAX_RETRY => act_pc = "protocol")
    /\ [][(act_pc = "protocol" /\ act_pc' # "protocol") =>
             (protocol_' /\ act_pc' = "done")]_vars

\* the tenth failure in a row has made CheckNewVersion return after nine
\* alerts, the last of them for a wait of 2560 s, and InitializeProtocol is
\* what the activation task calls next
C23_Witness ==
    /\ check_new_version.retry_count = MAX_RETRY
    /\ check_new_version.attempts = 10
    /\ Len(check_new_version.alerts) = 9
    /\ check_new_version.alerts[1] = 10
    /\ check_new_version.alerts[2] = 20
    /\ check_new_version.alerts[9] = 2560
    /\ act_pc = "protocol"
    /\ ~protocol_
\* C24: once the activation task has started it raises the activation-done
\* flag, unless the device restarts into new firmware first: also when the
\* server asks for an activation with every version check and no Activate
\* call succeeds
C24_ActivationTaskFinishes ==
    (act_pc = "assets") ~> (act_pc = "exit" \/ halted # "no")
(***************************************************************************)
(* The firmware upgrade (checked under SpecApp)                            *)
(***************************************************************************)
\* UpgradeFirmware, called by the "upgrade" closure on the dispatcher or by
\* CheckNewVersion on the activation task, learns that the transfer failed
UpgradeFailsOnMain ==
    /\ MainAt("ota")
    /\ main_prog' # main_prog
    /\ faults' # faults

UpgradeFailsOnActivation ==
    /\ ActAt("upgrade")
    /\ act_pc' # act_pc
    /\ faults' # faults

RebootCalled == \E k \in 1 .. Len(main_prog) : main_prog[k] = OpReboot

\* C25: when the transfer fails UpgradeFirmware starts the audio service
\* again, sets the power-save level to low power and returns to its caller
\* without calling Reboot; Reboot is called only after a transfer that
\* succeeded, which leaves the audio service stopped
C25_UpgradeFailureNotFatal ==
    /\ [][UpgradeFailsOnMain =>
             /\ audio_service_running'
             /\ power_save_level' = kPowerSaveLowPower
             /\ halted' = "no"
             /\ ~RebootCalled'
             /\ main_prog' = << OpAlert >> \o Tail(main_prog)]_vars
    /\ [][UpgradeFailsOnActivation =>
             /\ audio_service_running'
             /\ power_save_level' = kPowerSaveLowPower
             /\ halted' = "no"
             /\ act_pc' = AfterVersionCheck]_vars
    /\ []((RebootCalled \/ halted = "reboot") => ~audio_service_running)
    /\ [][(halted = "no" /\ halted' = "reboot") =>
             \/ MainAt("reboot")
             \/ ActAt("upgrade") /\ faults' = faults]_vars

\* the "upgrade" closure has seen the transfer fail and is about to show
\* the alert: the audio service runs, the level is low power, nothing
\* has rebooted
C25_Witness ==
    /\ TaskOf("upgrade")
    /\ MainAt("alert")
    /\ Len(main_prog) = 1
    /\ current_state_ = kDeviceStateUpgrading
    /\ faults = 0
    /\ audio_service_running
    /\ power_save_level = kPowerSaveLowPower
    /\ halted = "no"
(***************************************************************************)
(* The audio service around the state-entry handler (checked under         *)
(* SpecApp)                                                                *)
(***************************************************************************)
\* OpenAudioChannel returns false to the handler that called it
OpenAttemptFails ==
    /\ MainAt("open")
    /\ faults' # faults
    /\ main_prog' = << >>

\* C26: when OpenAudioChannel fails in an open attempt, wake-word detection
\* is enabled when the handler returns, whether the attempt was started by
\* the toggle-chat, the start-listening or the wake-word-detected flag
C26_FailedOpenEnablesWakeWord ==
    [][OpenAttemptFails => wake_word_detection']_vars
\* the state-entry handler has run in the pass that took the flag, and the
\* flag has not been raised since
EntryHandlerRan ==
    /\ MAIN_EVENT_STATE_CHANGED \notin event_group_
    /\ Handled(MAIN_EVENT_STATE_CHANGED)

\* a step of the dispatcher that runs HandleStateChangedEvent to its end
EntryHandlerStep ==
    /\ MainReady
    /\ main_i' # main_i
    /\ main_i' \in DOMAIN HandlerOrder
    /\ HandlerOrder[main_i'] = MAIN_EVENT_STATE_CHANGED
    /\ halted' = "no"

\* a transition made through TransitionTo by a thread that goes on to
\* NotifyStateChange: the listener raises the flag, the dispatcher takes
\* the flag and runs the state-entry handler, which makes the calls of the
\* state it reads then; the settings of the audio service change in no
\* other step but the return of a failed open attempt
LaterTransitionsHandled ==
    /\ \A th \in Threads :
          (tt[th].pc = "notify") ~> (tt[th].pc # "notify" \/ ~Running)
    /\ [][\A th \in Threads :
             (tt[th].pc = "notify" /\ tt'[th].pc # "notify") =>
                 MAIN_EVENT_STATE_CHANGED \in event_group_']_vars
    /\ (MAIN_EVENT_STATE_CHANGED \in event_group_)
           ~> (EntryHandlerRan \/ ~Running)
    /\ [][EntryHandlerStep =>
             \E afe \in BOOLEAN :
                LET calls == StateEntryCalls(current_state_, afe)
                IN  /\ trace' = << EvBegin(MAIN_EVENT_STATE_CHANGED) >>
                                    \o calls
                    /\ voice_processing' =
                           Setting(calls, "EnableVoiceProcessing",
                                   voice_processing)
                    /\ wake_word_detection' =
                           Setting(calls, "EnableWakeWordDetection",
                                   wake_word_detection)]_vars
    /\ [][audio' # audio => (EntryHandlerStep \/ OpenAttemptFails)]_vars

\* every store to current_state_ is made by a task that goes on to
\* NotifyStateChange with a listener to call, or raises the flag itself
EveryStoreNotifies ==
    [][current_state_' # current_state_ =>
          \/ \E th \in Threads :
                /\ tt'[th].pc = "notify"
                /\ NotifiedBits(PassCallbacks(
                       [callbacks_copy |-> CallbacksCopy(listeners_')]))
                      = { MAIN_EVENT_STATE_CHANGED }
          \/ MAIN_EVENT_STATE_CHANGED \in event_group_']_vars

\* C27: every successful transition, whichever task makes it, is followed
\* by a run of the state-entry handler, which applies the entry effects of
\* the state it finds then (unless the firmware restarts first); a state
\* that was entered and left before the handler ran gets no entry effects
C27_EveryTransitionReachesEntryHandler ==
    /\ EveryStoreNotifies
    /\ LaterTransitionsHandled

\* the dispatcher enters HandleStateChangedEvent
EntryHandlerBegins ==
    /\ MainReady
    /\ main_i' # main_i
    /\ main_i' \in DOMAIN HandlerOrder
    /\ HandlerOrder[main_i'] = MAIN_EVENT_STATE_CHANGED

\* the calls in the record of the handler that has just run
CallsMade == SelectSeq(trace, LAMBDA ev : ev.e = "call")

\* C28: when the state-entry handler runs for Listening and the audio
\* processor is not running, it calls WaitForPlaybackQueueEmpty first if and
\* only if the mode is AutoStop, then SendStartListening with the mode, then
\* EnableVoiceProcessing(true), then EnableWakeWordDetection(false); when
\* the audio processor is running it makes none of these calls
C28_ListeningEntryOrder ==
    [][(EntryHandlerBegins /\ current_state_ = kDeviceStateListening) =>
          /\ halted' = "no"
          /\ trace' = << EvBegin(MAIN_EVENT_STATE_CHANGED) >> \o CallsMade'
          /\ IF IsAudioProcessorRunning
             THEN /\ CallsMade' = << >>
                  /\ audio' = audio
             ELSE /\ CallsMade' =
                        (IF listening_mode_ = kListeningModeAutoStop
                         THEN << [e |-> "call",
                                  a |-> "WaitForPlaybackQueueEmpty",
                                  s |-> "", o |-> FALSE, n |-> 0] >>
                         ELSE << >>)
                        \o << [e |-> "call", a |-> "SendStartListening",
                               s |-> listening_mode_, o |-> FALSE, n |-> 0],
                              [e |-> "call", a |-> "EnableVoiceProcessing",
                               s |-> "", o |-> TRUE, n |-> 0],
                              [e |-> "call", a |-> "EnableWakeWordDetection",
                               s |-> "", o |-> FALSE, n |-> 0] >>
                  /\ voice_processing'
                  /\ ~wake_word_detection']_vars

\* the handler has run for Listening in AutoStop mode with the audio
\* processor stopped: the wait, the message, the processing, the detection
C28_Witness ==
    /\ HandlerOf(MAIN_EVENT_STATE_CHANGED)
    /\ trace[1].s = kDeviceStateListening
    /\ listening_mode_ = kListeningModeAutoStop
    /\ Len(CallsMade) = 4
    /\ CallsMade[1].a = "WaitForPlaybackQueueEmpty"
    /\ CallsMade[2].a = "SendStartListening"
    /\ CallsMade[2].s = kListeningModeAutoStop
    /\ CallsMade[3].a = "EnableVoiceProcessing"
    /\ CallsMade[4].a = "EnableWakeWordDetection"
    /\ voice_processing
    /\ ~wake_word_detection
\* the names of the calls in the record of the handler that has just run
CallNames == [i \in 1 .. Len(CallsMade) |-> CallsMade[i].a]

\* C29: a run of the state-entry handler for Idle disables voice processing
\* and enables wake-word detection; for Speaking in a mode other than
\* Realtime it disables voice processing and sets wake-word detection to
\* what IsAfeWakeWord returns; for Speaking in Realtime mode it leaves both
\* as they were; and for Speaking it resets the decoder last, in every mode
C29_AudioFollowsState ==
    /\ [][(EntryHandlerBegins /\ current_state_ = kDeviceStateIdle) =>
             /\ CallNames' = << "EnableVoiceProcessing",
                               "EnableWakeWordDetection" >>
             /\ ~voice_processing'
             /\ wake_word_detection']_vars
    /\ [][(/\ EntryHandlerBegins
           /\ current_state_ = kDeviceStateSpeaking
           /\ listening_mode_ # kListeningModeRealtime) =>
             /\ CallNames' = << "EnableVoiceProcessing", "IsAfeWakeWord",
                               "EnableWakeWordDetection", "ResetDecoder" >>
             /\ ~CallsMade'[1].o
             /\ CallsMade'[3].o = CallsMade'[2].o
             /\ ~voice_processing'
             /\ wake_word_detection' = CallsMade'[2].o]_vars
    /\ [][(/\ EntryHandlerBegins
           /\ current_state_ = kDeviceStateSpeaking
           /\ listening_mode_ = kListeningModeRealtime) =>
             /\ CallNames' = << "ResetDecoder" >>
             /\ audio' = audio]_vars

\* the handler has run for Speaking in AutoStop mode on a device whose
\* wake-word engine is not the AFE one: both are off, the decoder is reset
C29_Witness ==
    /\ HandlerOf(MAIN_EVENT_STATE_CHANGED)
    /\ trace[1].s = kDeviceStateSpeaking
    /\ listening_mode_ = kListeningModeAutoStop
    /\ CallNames = << "EnableVoiceProcessing", "IsAfeWakeWord",
                     "EnableWakeWordDetection", "ResetDecoder" >>
    /\ ~CallsMade[2].o
    /\ ~voice_processing
    /\ ~wake_word_detection
(***************************************************************************)
(* The close sequence by stop-listening (checked under SpecApp)            *)
(***************************************************************************)
\* the record is that of the stop-listening block entered in Listening
StoppedWhileListening ==
    /\ HandlerOf(MAIN_EVENT_STOP_LISTENING)
    /\ trace[1].s = kDeviceStateListening

\* C30: when the stop-listening flag is handled in Listening, the state is
\* Idle and the power-save level is low power when the handler returns
C30_StopListeningClosesSession ==
    (StoppedWhileListening /\ Returned) =>
        /\ StateAtReturn = kDeviceStateIdle
        /\ power_save_level = kPowerSaveLowPower

\* the part of C30 that the handler does: the state is Idle at its return
StopListeningGoesIdle ==
    (StoppedWhileListening /\ Returned) =>
        StateAtReturn = kDeviceStateIdle

(***************************************************************************)
(* C31: the start of the activation task (checked under SpecNetwork)       *)
(***************************************************************************)
\* an activation task exists: created, and not yet at the end of its
\* function
ActivationTaskExists == act_pc # "none"

\* the states in which the network-connected handler starts the activation
ActivationStartStates ==
    { kDeviceStateStarting, kDeviceStateWifiConfiguring }

\* the handler of the network-connected flag runs its xTaskCreate part
StartActivationStep ==
    /\ MainAt("start_activation")
    /\ main_prog' = Tail(main_prog)

RepliesTo(id) ==
    LET IsTo(r) == r.id = id
    IN  SelectSeq(mcp_replies, IsTo)

CallsFor(id) ==
    LET IsFor(c) == c.id = id
    IN  SelectSeq(mcp_calls, IsFor)

UnknownTool(req) ==
    \A i \in 1 .. Len(tools_) : tools_[i].name # req.name

\* the arguments give a value of the property's type
HasValueFor(req, p) ==
    /\ req.arguments.t = "object"
    /\ p.name \in DOMAIN req.arguments.members
    /\ req.arguments.members[p.name].t =
           CASE p.type = kPropertyTypeInteger -> "number"
             [] p.type = kPropertyTypeString -> "string"
             [] OTHER -> "bool"

PropertiesOf(req) ==
    LET tool == CHOOSE t \in Range(tools_) : t.name = req.name
    IN  Range(tool.properties)

\* a property without a default for which the arguments give no value
MissingRequired(req) ==
    /\ ~UnknownTool(req)
    /\ \E p \in PropertiesOf(req) :
          ~p.has_default_value /\ ~HasValueFor(req, p)

\* the request is one the server can serve: "arguments" absent or an object,
\* a known tool, every required argument given, every number in its range
WellFormed(req) ==
    /\ req.arguments.t \in { "null", "object" }
    /\ ~UnknownTool(req)
    /\ ~MissingRequired(req)
    /\ \A p \in PropertiesOf(req) :
          HasValueFor(req, p) /\ p.type = kPropertyTypeInteger
              => /\ req.arguments.members[p.name].v >= p.min_value
                 /\ req.arguments.members[p.name].v <= p.max_value

ClosureQueued(id) == \E i \in 1 .. Len(mcp_tasks) : mcp_tasks[i].id = id

\* what the server has done for a request so far is what it owes
Served(req) ==
    LET replies == RepliesTo(req.id)
        calls == CallsFor(req.id)
    IN  IF WellFormed(req)
        THEN \/ /\ ClosureQueued(req.id)
                /\ replies = << >>
                /\ calls = << >>
             \/ /\ ~ClosureQueued(req.id)
                /\ Len(calls) = 1
                /\ calls[1].th = "main"
                /\ tools_[calls[1].tool].name = req.name
                /\ replies = << Reply(req.id, IF calls[1].thrown
                                               THEN "error" ELSE "result") >>
        ELSE /\ ~ClosureQueued(req.id)
             /\ calls = << >>
             /\ replies = << Reply(req.id, "error") >>

\* C32: every tools/call request with a numeric id and a tool name gets
\* exactly one reply for its id: an unknown tool or a missing required
\* argument (as any request that is not well formed) gets one error reply
\* and no execution of a tool; otherwise the tool runs once, on the
\* dispatcher, from the closure given to Schedule, and replies a result, or
\* an error when it throws a std::exception, and no exception leaves the
\* closure.
C32_OneReplyPerToolCall ==
    /\ [](~mcp_uncaught)
    /\ [](\A i \in 1 .. Len(mcp_requests) :
            /\ Served(mcp_requests[i])
            /\ UnknownTool(mcp_requests[i]) \/ MissingRequired(mcp_requests[i])
                  => ~WellFormed(mcp_requests[i]))
    /\ \A id \in 1 .. MaxMcpRequests :
          (Len(mcp_requests) >= id) ~> (Len(RepliesTo(id)) = 1)

\* a tool has thrown and the request has its error reply, a request for an
\* unknown tool has its own
C32_Witness ==
    /\ Len(mcp_requests) = 2
    /\ WellFormed(mcp_requests[1])
    /\ Len(CallsFor(1)) = 1
    /\ CallsFor(1)[1].thrown
    /\ RepliesTo(1) = << Reply(1, "error") >>
    /\ UnknownTool(mcp_requests[2])
    /\ RepliesTo(2) = << Reply(2, "error") >>

(***************************************************************************)
(* C33: cancellation of the login (checked under FairSpecLogin)            *)
(***************************************************************************)
\* the login task is in its polling loop
InPollingLoop == login_pc \in { "top", "slice", "delay", "poll" }

\* the keycloak tool runs with action "login"
LoginRequest == login_hist'.requests # login_hist.requests /\
                s_login_task_cancelled' = s_login_task_cancelled

\* C33: once the cancel flag is set while the login task is in its polling
\* loop, the task starts at most one further token request and at most one
\* further 100 ms delay, leaves the loop and terminates with the running
\* flag cleared; a login request made while the running flag is set creates
\* no task.
C33_CooperativeCancel ==
    /\ [](login_hist.polls <= 1 /\ login_hist.delays <= 1)
    /\ (s_login_task_cancelled /\ InPollingLoop)
          ~> (login_pc = "none" /\ ~s_login_task_running)
    /\ [][s_login_task_running
            => /\ login_hist'.created = login_hist.created
               /\ login_pc' = "device_code" => login_pc = "device_code"]_vars

\* the flag was set after the check at the start of an iteration: the task
\* has made the one further request and has left the loop at the next check,
\* and a login request has been refused while the task was running
C33_Witness ==
    /\ login_hist.polls = 1
    /\ login_loop.cancelled
    /\ login_loop.i = 1
    /\ login_pc = "none"
    /\ ~s_login_task_running
    /\ login_hist.created = 1
    /\ login_hist.requests = 3

(***************************************************************************)
(* The send-audio block: packets taken from the send queue                 *)
(***************************************************************************)
\* the packets in the send queue
InSendQueue(q) == { q[k] : k \in 1 .. Len(q) }

\* this step offers a packet to the protocol
OffersPacket ==
    /\ Len(trace') = Len(trace) + 1
    /\ trace'[Len(trace')].e = "send"

\* C36: a packet the send-audio block has taken from the send queue is never
\* put back: the queue only receives packets the encoder has just produced,
\* whose numbers are new, and a packet offered to the protocol, sent or not,
\* is out of the queue from that step on, so it is not offered again; and
\* without a Protocol instance the block takes every packet and offers none,
\* ending with the queue empty.
C36_PacketsNeverPutBack ==
    /\ [](\A k \in 1 .. Len(send_queue) :
             /\ send_queue[k] < next_packet
             /\ \A j \in 1 .. k - 1 : send_queue[j] < send_queue[k])
    /\ [][/\ next_packet' >= next_packet
          /\ InSendQueue(send_queue')
                 \subseteq InSendQueue(send_queue) \cup { next_packet }
          /\ next_packet \in InSendQueue(send_queue')
                 => next_packet' > next_packet]_vars
    /\ [][OffersPacket =>
            /\ protocol_
            /\ send_queue # << >>
            /\ trace'[Len(trace')].n = Head(send_queue)
            /\ Head(send_queue) \notin InSendQueue(send_queue')]_vars
    /\ [][MainAt("send_audio") /\ ~protocol_ =>
            /\ ~OffersPacket
            /\ main_prog' # main_prog =>
                  send_queue = << >> /\ send_queue' = << >>
            /\ send_queue' # send_queue =>
                  \/ send_queue # << >> /\ send_queue' = Tail(send_queue)
                  \/ send_queue' = Append(send_queue, next_packet)]_vars

\* before the protocol exists the encoder has produced two packets and the
\* send-audio block has ended: it has offered none and the queue is empty
C36_Witness ==
    /\ ~protocol_
    /\ MainReady
    /\ HandlerOf(MAIN_EVENT_SEND_AUDIO)
    /\ Len(trace) = 1
    /\ next_packet = 3
    /\ send_queue = << >>

(***************************************************************************)
(* Re-entrant TransitionTo                                                 *)
(***************************************************************************)
\* the positions in sm_log of the invocations of notification pass n
PassAt(n) == { k \in 1 .. Len(sm_log) : sm_log[k].pass = n }

\* the position of the first invocation of pass n
FirstOf(n) == CHOOSE k \in PassAt(n) : \A j \in PassAt(n) : k <= j

\* pass n was begun by a TransitionTo made from inside a callback and has
\* invoked a listener
Nested(n) == PassAt(n) # {} /\ sm_log[FirstOf(n)].depth > 1

\* the position of the invocation whose callback made the call of pass n:
\* the call loads, stores and notifies before another callback runs
CallerOf(n) == FirstOf(n) - 1

\* C35: when a listener, inside its callback for (s0 -> s1), calls
\* TransitionTo(s2) with (s1, s2) legal, every listener registered after it
\* is invoked with (s1, s2) before it is invoked with (s0, s1), and every
\* listener registered before it is invoked with (s0, s1) first.  Listener
\* ids grow in registration order; the state is s1 at the call when no other
\* transition has been made since the store of s1.
C35_ReentrantNotificationOrder ==
    \A n \in 2 .. sm_passes :
       Nested(n) =>
          LET c == sm_log[CallerOf(n)]
          IN  /\ sm_log[FirstOf(n)].depth = c.depth + 1
              /\ \A k \in PassAt(n) :
                    /\ InTable(sm_log[k].old, sm_log[k].new)
                    /\ n = c.pass + 1 => sm_log[k].old = c.new
              /\ \A k \in PassAt(n), m \in PassAt(c.pass) :
                    sm_log[k].id = sm_log[m].id =>
                       /\ sm_log[m].old = c.old /\ sm_log[m].new = c.new
                       /\ sm_log[m].id < c.id => m < k
                       /\ sm_log[m].id > c.id => k < m
              /\ (SMReturned /\ c.pass = 1) =>
                    \A k \in PassAt(n) :
                       sm_log[k].id \in { sm_call.reg[i].id :
                                            i \in 1 .. Len(sm_call.reg) }
                          => \E m \in PassAt(1) : sm_log[m].id = sm_log[k].id

\* the second of two listeners has been invoked with (speaking, idle), by
\* the TransitionTo(idle) the first made from its callback for
\* (listening, speaking), and after that with (listening, speaking)
C35_Witness ==
    /\ SMReturned
    /\ Len(sm_log) = 4
    /\ sm_log[1].id = 0 /\ sm_log[1].pass = 1
    /\ sm_log[1].old = kDeviceStateListening
    /\ sm_log[1].new = kDeviceStateSpeaking
    /\ sm_log[3].id = 1 /\ sm_log[3].pass = 2
    /\ sm_log[3].old = kDeviceStateSpeaking
    /\ sm_log[3].new = kDeviceStateIdle
    /\ sm_log[4].id = 1 /\ sm_log[4].pass = 1
    /\ sm_log[4].old = kDeviceStateListening
    /\ sm_log[4].new = kDeviceStateSpeaking

(***************************************************************************)
(* The device state around the firmware transfer                           *)
(***************************************************************************)
\* UpgradeFirmware has made its SetDeviceState(kDeviceStateUpgrading) and is
\* at Ota::Upgrade, on the dispatcher or on the activation task
AtTransfer == MainAt("ota") \/ ActAt("upgrade")

\* C37: whenever the firmware transfer of UpgradeFirmware is in progress
\* the device state is Upgrading, whether the activation task has called
\* UpgradeFirmware or the closure of the self.upgrade_firmware tool.
C37_UpgradingDuringTransfer ==
    AtTransfer => current_state_ = kDeviceStateUpgrading

\* CheckNewVersion goes on after an UpgradeFirmware that returned false: the
\* state is the Upgrading that UpgradeFirmware has set
FailedOnActivation ==
    /\ ActAt("protocol")
    /\ current_state_ = kDeviceStateUpgrading

\* the closure of self.upgrade_firmware, called in Idle with no audio
\* channel to close, is in the failure branch of UpgradeFirmware
FailedOnMain ==
    /\ TaskOf("upgrade")
    /\ MainAt("alert")
    /\ Len(main_prog) = 1
    /\ current_state_ = kDeviceStateUpgrading
    /\ \A i \in 1 .. Len(trace) : trace[i] # EvClose

\* the device has left Upgrading for Idle, or the firmware has stopped
IdleOrStopped == current_state_ = kDeviceStateIdle \/ halted # "no"

\* after a failed upgrade on the activation task the device reaches Idle
ActivationUpgradeRecovers == FailedOnActivation ~> IdleOrStopped

\* C38: after a firmware upgrade that fails the device does not stay in
\* Upgrading: it eventually reaches Idle, when the activation task had
\* started the upgrade and when the self.upgrade_firmware tool had, from Idle
\* with no audio channel open.
C38_FailedUpgradeReachesIdle ==
    /\ FailedOnActivation ~> IdleOrStopped
    /\ FailedOnMain ~> IdleOrStopped

(***************************************************************************)
(* The states without an incoming edge                                     *)
(***************************************************************************)
\* C39: from the initial state Unknown no sequence of TransitionTo calls
\* makes the current state FatalError, and once the state has left Unknown
\* none makes it Unknown again: neither is the target of an edge of the
\* table, and the state changes along edges only.
C39_NoWayToFatalOrBackToUnknown ==
    /\ [](current_state_ # kDeviceStateFatalError)
    /\ [](\A s \in DeviceStates :
             /\ kDeviceStateFatalError \notin ValidTargets(s)
             /\ kDeviceStateUnknown \notin ValidTargets(s))
    /\ [][current_state_ # kDeviceStateUnknown
            => current_state_' # kDeviceStateUnknown]_vars
    /\ [][current_state_' # current_state_
            => InTable(current_state_, current_state_')]_vars

\* the device has reached Idle from Unknown, and a TransitionTo(FatalError)
\* has returned false and left it there
C39_Witness ==
    /\ SMReturned
    /\ sm_call.from = kDeviceStateIdle
    /\ sm_call.target = kDeviceStateFatalError
    /\ ~sm_call.ret
    /\ current_state_ = kDeviceStateIdle

(***************************************************************************)
(* The reconnect task of the SignalR client                                *)
(***************************************************************************)
\* a call of RequestReconnect made while the client is not initialized, is
\* connecting or is connected returns without a request and without a task
RequestReconnectSkips ==
    [][(rr_pc = "idle" /\ RequestSkipped) =>
          /\ rr_pc' = "idle"
          /\ CreatedTasks' = CreatedTasks
          /\ reconnect_task_running_' => reconnect_task_running_]_vars

\* C40: at most one reconnect task is alive at any time: RequestReconnect
\* creates no task on the stack while a task created before is still
\* running on it, whatever exit step that task has reached; and it starts
\* nothing when the client is not initialized, is connecting or is connected.
C40_OneReconnectTask ==
    /\ [](Cardinality(AliveTasks) <= 1)
    /\ [][CreatedTasks' # CreatedTasks => AliveTasks = {}]_vars
    /\ RequestReconnectSkips

(***************************************************************************)
(* Application::ResetProtocol                                              *)
(***************************************************************************)
\* calls of ResetProtocol, network losses and button presses of a run
MaxResetStimuli == 3

\* ResetProtocol, called on a task of the board: Schedule of the closure
ResetProtocol ==
    /\ Running
    /\ prod_pc = "idle"
    /\ stimuli > 0
    /\ stimuli' = stimuli - 1
    /\ main_tasks_' = Pushed("reset_protocol")
    /\ prod_pc' = "set_bits"
    /\ UNCHANGED << machine, sm_h, ext, event_group_, disp, tt, ran, session,
                    audio, activation, btn_pc, halted, faults >>
    /\ UNCHANGED << hist, aux >>

\* the closure of ResetProtocol: protocol_.reset()
MainResetProtocol ==
    /\ MainAt("reset_protocol")
    /\ protocol_' = FALSE
    /\ channel_open' = FALSE
    /\ main_prog' = Tail(main_prog)
    /\ UNCHANGED << machine, sm_h, ext, event_group_, main_pc, bits, main_i,
                    tasks, pass_log, tt, queue, listening_mode_, aec_mode_,
                    audio, activation, others >>
    /\ UNCHANGED << hist, aux >>

\* the device at rest after a completed activation
ResetInit ==
    /\ InitSteady
    /\ aec_mode_ = kAecOff
    /\ has_activation_code = FALSE
    /\ SMQuiet
    /\ stimuli = MaxResetStimuli
    /\ faults = 0

ResetNext ==
    \/ SessionNext
    \/ ResetProtocol
    \/ MainResetProtocol

\* the activated device, whose board may call ResetProtocol
SpecReset == ResetInit /\ [][ResetNext]_vars

\* the network-disconnected handler is at its protocol_->CloseAudioChannel()
AtUncheckedClose ==
    /\ HandlerOf(MAIN_EVENT_NETWORK_DISCONNECTED)
    /\ MainAt("close")

\* this step is a run of the state-entry handler that reads Listening with
\* the audio processor not running
ListeningEntryStep ==
    /\ pass_log' = Append(pass_log, MAIN_EVENT_STATE_CHANGED)
    /\ current_state_ = kDeviceStateListening
    /\ ~IsAudioProcessorRunning

\* C34: protocol_ is non-null whenever the network-disconnected handler runs
\* in Connecting, Listening or Speaking and whenever the state-entry handler
\* runs for Listening with the audio processor not running, the two places
\* that use it unchecked, also after the closure of ResetProtocol.
C34_ProtocolWhereUnchecked ==
    /\ [](AtUncheckedClose => protocol_)
    /\ [][ListeningEntryStep => protocol_]_vars
====
